---- MODULE Spec2Model ----
(***************************************************************************)
(* Provider clients of the chat pipeline: generate() and generateStream()  *)
(* with fetchWithRetry, waitForRetryDelay, the two-key fallback and the    *)
(* SSE reader readSseJsonEvents.                                           *)
(*                                                                         *)
(* One run of the model is one call of generate() or generateStream() on   *)
(* one provider client.  The process position pc is the await the call is  *)
(* suspended at; the network, the timer and the caller's AbortController   *)
(* are the environment.  Every action runs the code from one suspension    *)
(* point to the next one.                                                  *)
(***************************************************************************)
EXTENDS Integers, Sequences, FiniteSets, TLC

\* ---------------------------------------------------------------- bounds
\* The maxRetries option is 0 or this number (the code's default is 3).
MaxRetriesBound == 2
\* Largest number of stream lines (data lines, blank lines) the network
\* delivers during one call, in any number of reads.
MaxLines == 2
\* The same, for the runs that explore the SSE reader.
MaxReaderLines == 4
\* Longest text of one Gemini payload, and longest assembled text.
MaxPayloadLen == 3
MaxAssembledLen == 4
\* Longest varying head of a text replayed by the pseudo-stream.
MaxHeadLen == 3

\* ------------------------------------------------------- program constants
\* anthropic-provider.js
DEFAULT_MAX_TOKENS == 4096
MIN_THINKING_BUDGET_TOKENS == 1024
\* fetchWithRetry: delayMs = Math.min(1000 * (2 ** attempt), maxRetryDelayMs)
RetryBaseDelayMs == 1000
\* createXProvider({ maxRetryDelayMs = 8000 })
DefaultMaxRetryDelayMs == 8000

\* ------------------------------------------------------------- the inputs
\* The provider clients of the repository.
\*   "openai"        createOpenAiProvider / createOpenAiProviderByMode
\*   "anthropic"     createAnthropicProvider
\*   "geminiLegacy"  createGeminiProvider building its own request body
\*   "gemini"        createGeminiProvider building the request by the router
Providers == {"openai", "anthropic", "geminiLegacy", "gemini"}
Modes == {"generate", "generateStream"}

\* HTTP statuses the network answers with.
Statuses == {200, 401, 403, 408, 429, 500, 503}

\* The configurations: whether apiUrl, model, apiKey and backupApiKey are
\* non-blank, and whether every image part of the envelope has a sourceType
\* the provider's protocol supports.
Configs == [apiUrl : BOOLEAN, model : BOOLEAN, apiKey : BOOLEAN,
            backupApiKey : BOOLEAN, imagesSupported : BOOLEAN]

\* maxRetryDelayMs options: a zero ceiling, and a ceiling between the first
\* and the second step of the backoff, which it caps from the second on.
RetryDelayOptions == {0, 1500}

\* Texts a payload can carry (sequences of characters).
Texts == {<<>>, <<"a">>, <<"a", "b">>}

\* The lines of a server-sent-event stream, as the reader splits them:
\*   sep     the blank line that ends a record
\*   done    data: [DONE]
\*   bad     data: followed by text that is not JSON
\*   nodata  a line that does not start with data: (event:, a comment)
\*   json    data: followed by a JSON payload whose provider-specific delta
\*           parser (parseOpenAiStreamDelta, parseAnthropicStreamDelta,
\*           parseGeminiText) returns the text
Line(kind, text) == [kind |-> kind, text |-> text]
SepLine == Line("sep", <<>>)
Lines == {Line(k, <<>>) : k \in {"sep", "done", "bad", "nodata"}}
             \cup {Line("json", t) : t \in Texts}

\* What one reader.read() can deliver when n lines are left to come.
Chunks(n) == UNION {[1..k -> Lines] : k \in 1..n}

\* ------------------------------------------------------------- the errors
Err(name, status, key) == [name |-> name, status |-> status, key |-> key]
NoError == Err("none", 0, "none")

VARIABLES
    provider,         \* which provider client is called
    mode,             \* generate or generateStream
    config,           \* the config parameter
    maxRetries,       \* option of createXProvider
    maxRetryDelayMs,  \* option of createXProvider
    aborted,          \* signal.aborted
    streamLeft,       \* lines the network has yet to deliver
    run,              \* the call's local variables, position and effects
    core              \* the state of the core function a run exercises alone

vars == <<provider, mode, config, maxRetries, maxRetryDelayMs, aborted,
          streamLeft, run, core>>

\* The variables of a provider call, for the runs that make none.
clientVars == <<provider, mode, config, maxRetries, maxRetryDelayMs,
                streamLeft, run>>

\* No core function is exercised alone.
NoCore == [pc |-> "none"]

\* ------------------------------------------------------------ small helpers
Min(a, b) == IF a <= b THEN a ELSE b

IsPrefix(p, t) == Len(p) <= Len(t) /\ SubSeq(t, 1, Len(p)) = p
IsSuffix(p, t) == Len(p) <= Len(t) /\ SubSeq(t, Len(t) - Len(p) + 1, Len(t)) = p

Event(type, text) == [type |-> type, text |-> text]

\* buildApiKeys: [config.apiKey, config.backupApiKey] with blank keys dropped.
\* The keys are named by where the configuration holds them.
buildApiKeys(cfg) ==
    SelectSeq(<<"primary", "backup">>,
              LAMBDA k : IF k = "primary" THEN cfg.apiKey ELSE cfg.backupApiKey)

apiKeys == buildApiKeys(config)
hasBackupKey == Len(apiKeys) > 1

\* The key of the current loop iteration, apiKeys[keyIndex].
KeyOf(s) == IF s.keyIndex < Len(apiKeys) THEN apiKeys[s.keyIndex + 1] ELSE "none"

\* ------------------------------------------------------------ retry policy
\* A variant that retries every error status.
shouldRetryStatus_AnyErrorStatus(statusCode) == statusCode >= 400

shouldRetryStatus(statusCode) ==
    statusCode = 408 \/ statusCode = 429 \/ statusCode >= 500

\* response.ok
ResponseOk(statusCode) == statusCode >= 200 /\ statusCode <= 299

\* A variant without the ceiling.
retryDelayMs_WithoutCeiling(attempt) == RetryBaseDelayMs * (2 ^ attempt)

\* Math.min(1000 * (2 ** attempt), maxRetryDelayMs)
retryDelayMs(attempt) == Min(RetryBaseDelayMs * (2 ^ attempt), maxRetryDelayMs)

\* A variant that does not look at the signal before it arms the timer.
waitForRetryDelay_WithoutAbortedCheck(delayMs, signalAborted) ==
    IF delayMs <= 0 THEN "resolved" ELSE "pending"

\* waitForRetryDelay(delayMs, signal): how the promise it returns stands when
\* the call returns.  A non-positive delay resolves before the signal is
\* looked at.
waitForRetryDelay(delayMs, signalAborted) ==
    IF delayMs <= 0 THEN "resolved"
    ELSE IF signalAborted THEN "rejected"
    ELSE "pending"

\* for (let attempt = 0; attempt <= maxRetries; attempt += 1)
RetryLoopGuard(attempt) == attempt <= maxRetries

\* A variant that also retries the response of the last allowed attempt.
MayRetryResponse_LastAttemptIncluded(attempt) == attempt <= maxRetries

\* ... && attempt < maxRetries in the try block of fetchWithRetry
MayRetryResponse(attempt) == attempt < maxRetries

\* if (attempt >= maxRetries) throw error in the catch block of fetchWithRetry
RetriesExhausted(attempt) == attempt >= maxRetries

\* A variant that tests for a name no cancellation carries.
IsAbortError_WrongName(e) == e.name = "CancelError"

\* error?.name === 'AbortError'
IsAbortError(e) == e.name = "AbortError"

\* -------------------------------------------------- the call's local state
InitRun ==
    [pc |-> "idle",
     keyIndex |-> 0,              \* generate: keyIndex
     attempt |-> 0,               \* fetchWithRetry: attempt
     waitSite |-> "none",         \* the block of fetchWithRetry that waits
     fwrLastError |-> NoError,    \* fetchWithRetry: lastError
     lastError |-> NoError,       \* generate: lastError
     fallbackNoticeShown |-> FALSE,
     emittedAnyDelta |-> FALSE,
     status |-> 0,                \* response.status of the response in hand
     buffer |-> <<>>,             \* readSseJsonEvents: buffer
     assembledText |-> <<>>,      \* Gemini generateStream: assembledText
     resultText |-> <<>>,         \* generate: the text of the returned result
     \* what the call did, as its collaborators saw it
     fetchCalls |-> [k \in {"primary", "backup"} |-> 0],
     retryNotices |-> <<>>,       \* onRetryNotice calls, in order
     fallbackNotices |-> 0,       \* onFallbackKey calls
     events |-> <<>>,             \* events yielded by generateStream
     thrown |-> NoError,          \* the error the call rejected with
     \* history of the run
     abortRaised |-> "none",      \* where the last AbortError was raised
     atAbort |-> [fetchCalls |-> [k \in {"primary", "backup"} |-> 0],
                  retryNotices |-> <<>>, fallbackNotices |-> 0,
                  events |-> <<>>],  \* the effects when it was raised
     attemptFailed |-> [k \in {"primary", "backup"} |-> FALSE],
     lastOutcome |-> NoError,     \* how the last network operation ended
     doneSeen |-> FALSE,          \* a [DONE] record was cut from the buffer
     keepsReceived |-> FALSE,     \* whether the run records `received`
     received |-> <<>>,           \* the lines the response body delivered
     parsedAfterDone |-> 0]       \* records parsed after a [DONE] record

Throw(s, e) == [s EXCEPT !.pc = "thrown", !.thrown = e]

\* What the collaborators have seen of the call so far.
Effects(s) ==
    [fetchCalls |-> s.fetchCalls, retryNotices |-> s.retryNotices,
     fallbackNotices |-> s.fallbackNotices, events |-> s.events]

\* createAbortError() / the AbortError of fetch: remembers where it was
\* raised and what the call had done by then.
RaiseAbort(s, where) ==
    [s EXCEPT !.abortRaised = where, !.atAbort = Effects(s)]

AbortErrorOf(s) == Err("AbortError", 0, KeyOf(s))

\* ------------------------------------------------------ request building
\* REQUEST_BUILDERS of the format router, by provider id.
RequestBuilderIds == {"openai", "openai_responses", "anthropic", "gemini"}

\* buildGeminiGenerateContentRequest: the adapter rejects a configuration
\* without apiUrl or model and an image sourceType the protocol lacks.
buildGeminiGenerateContentRequest(cfg) ==
    IF cfg.apiUrl /\ cfg.model /\ cfg.imagesSupported THEN "request" ELSE "ConfigError"

\* buildProviderRequest({providerId, config, envelope, stream, apiKey})
buildProviderRequest(providerId, cfg) ==
    IF providerId \notin RequestBuilderIds THEN "ConfigError"
    ELSE buildGeminiGenerateContentRequest(cfg)

\* The checks generate() and generateStream() make before the key loop:
\* TRUE when one of them throws.
UpfrontConfigError(p, cfg) ==
    IF p = "gemini"
    THEN ~cfg.model \/ Len(buildApiKeys(cfg)) = 0
    ELSE ~cfg.apiUrl \/ ~cfg.model \/ Len(buildApiKeys(cfg)) = 0

\* Whether the request is built inside the try block of the key loop.
BuildsRequestPerKey(p) == p = "gemini"

\* ------------------------------------------------------- fallback policy
\* generate: if (keyIndex === 0 && hasBackupKey)
canFallBackInGenerate(s) == s.keyIndex = 0 /\ hasBackupKey

\* A variant that forgets emittedAnyDelta.
canTryBackup_IgnoringEmittedDelta(s) == s.keyIndex = 0 /\ hasBackupKey

\* generateStream: canTryBackup = keyIndex === 0 && hasBackupKey && !emittedAnyDelta
canTryBackup(s) == s.keyIndex = 0 /\ hasBackupKey /\ ~s.emittedAnyDelta

\* if (!fallbackNoticeShown) { onFallbackKey?.(); fallbackNoticeShown = true;
\* yield { type: 'fallback-key' } (generateStream only) }
FallbackNotice(s) ==
    IF s.fallbackNoticeShown THEN s
    ELSE [s EXCEPT !.fallbackNotices = @ + 1,
                   !.fallbackNoticeShown = TRUE,
                   !.events = IF mode = "generateStream"
                              THEN Append(@, Event("fallback-key", <<>>)) ELSE @]

\* A variant that rethrows the first error the key loop recorded.
RethrownError_FirstRecorded(s, e) ==
    IF s.lastError = NoError THEN e ELSE s.lastError

\* `throw error` at the end of the catch block of the key loop: the error
\* just caught, whatever lastError held when the block was entered (s).
RethrownError(s, e) == e

\* fetchWithRetry returned or threw: its locals are gone.
LeaveFetchWithRetry(s) ==
    [s EXCEPT !.attempt = 0, !.fwrLastError = NoError, !.waitSite = "none"]

\* The try block of the key loop was left by an error: `response` is gone.
LeaveTry(s) == [LeaveFetchWithRetry(s) EXCEPT !.status = 0]

RECURSIVE ProviderCatch(_, _), KeyLoop(_), FetchLoop(_), FetchCatch(_, _),
          StartWait(_, _)

\* fetchImpl(url, options) is called; the call awaits its result.
CallFetch(s) ==
    [s EXCEPT !.pc = "fetch", !.fetchCalls[KeyOf(s)] = @ + 1]

\* fetchWithRetry at its loop test.
FetchLoop(s) ==
    IF RetryLoopGuard(s.attempt) THEN CallFetch(s)
    ELSE ProviderCatch(s, IF s.fwrLastError = NoError
                          THEN Err("RetriesFailed", 0, KeyOf(s))
                          ELSE s.fwrLastError)

fetchWithRetry(s) ==
    FetchLoop([s EXCEPT !.attempt = 0, !.fwrLastError = NoError, !.status = 0])

\* The wait is over: `continue`, or the end of the catch block; attempt += 1.
AfterWait(s) == FetchLoop([s EXCEPT !.attempt = @ + 1, !.waitSite = "none"])

\* The wait rejected with AbortError.  A wait in the try block is caught by
\* the catch block of fetchWithRetry; a wait in the catch block leaves
\* fetchWithRetry at once.
WaitRejected(s) ==
    IF s.waitSite = "try"
    THEN FetchCatch(RaiseAbort(s, "wait"), AbortErrorOf(s))
    ELSE ProviderCatch(RaiseAbort(s, "wait"), AbortErrorOf(s))

\* onRetryNotice?.(attempt + 1, maxRetries, delayMs);
\* await waitForRetryDelay(delayMs, options?.signal)
StartWait(s, site) ==
    LET delayMs == retryDelayMs(s.attempt)
        s1 == [s EXCEPT !.retryNotices =
                            Append(@, [attempt |-> s.attempt + 1,
                                       maxRetries |-> maxRetries,
                                       delayMs |-> delayMs]),
                        !.waitSite = site]
        wait == waitForRetryDelay(delayMs, aborted)
    IN  CASE wait = "resolved" -> AfterWait(s1)
          [] wait = "rejected" -> WaitRejected(s1)
          [] OTHER -> [s1 EXCEPT !.pc = "wait"]

\* The catch block of fetchWithRetry.
FetchCatch(s, e) ==
    LET s1 == [s EXCEPT !.fwrLastError = e]
    IN  IF IsAbortError(e) THEN ProviderCatch(s1, e)
        ELSE IF RetriesExhausted(s.attempt) THEN ProviderCatch(s1, e)
        ELSE StartWait(s1, "catch")

\* One iteration of the key loop up to its first await.
StartKey(s) ==
    LET s1 == [s EXCEPT !.assembledText = <<>>, !.buffer = <<>>,
                        !.doneSeen = FALSE, !.received = <<>>]
    IN  IF BuildsRequestPerKey(provider)
           /\ buildProviderRequest(provider, config) = "ConfigError"
        THEN ProviderCatch(s1, Err("ConfigError", 0, KeyOf(s1)))
        ELSE fetchWithRetry(s1)

\* for (let keyIndex = 0; keyIndex < apiKeys.length; keyIndex += 1)
KeyLoop(s) ==
    IF s.keyIndex < Len(apiKeys) THEN StartKey(s)
    ELSE Throw(s, IF s.lastError = NoError
                  THEN Err("RequestFailed", 0, "none") ELSE s.lastError)

\* The catch block of the key loop in generate() and generateStream().
ProviderCatch(s0, e) ==
    LET s == LeaveTry(s0)
    IN
    IF IsAbortError(e) THEN Throw(s, e)
    ELSE LET s1 == [s EXCEPT !.lastError = e,
                             !.attemptFailed[KeyOf(s)] =
                                 @ \/ e.name # "ConfigError"]
             fallBack == IF mode = "generate" THEN canFallBackInGenerate(s1)
                         ELSE canTryBackup(s1)
         IN  IF fallBack
             THEN KeyLoop([FallbackNotice(s1) EXCEPT !.keyIndex = @ + 1])
             ELSE Throw(s1, RethrownError(s, e))

\* generate(params) / generateStream(params) up to the first await.
CallProvider(s) ==
    IF UpfrontConfigError(provider, config)
    THEN Throw(s, Err("ConfigError", 0, "none"))
    ELSE KeyLoop([s EXCEPT !.keyIndex = 0])

\* ---------------------------------------------------------- the SSE reader
\* Whether readSseJsonEvents returns at a [DONE] payload.  The Anthropic
\* reader has no such test: it hands [DONE] to JSON.parse like any payload.
ReturnsAtDone(p) == p # "anthropic"

\* Whether readSseJsonEvents parses what is left in the buffer when the
\* byte stream closes (the Gemini readers only).
ParsesResidual(p) == p \in {"gemini", "geminiLegacy"}

\* Whether the payloads are cumulative snapshots diffed by resolveStreamDelta.
DiffsSnapshots(p) == p \in {"gemini", "geminiLegacy"}

\* extractSseDataPayload(rawEvent): the data: lines joined by "\n".  No data
\* line gives the empty payload; two or more data lines give a joined text,
\* which is neither [DONE] nor, for the lines of this model, a JSON document.
extractSseDataPayload(rawEvent) ==
    LET dataLines == SelectSeq(rawEvent, LAMBDA l : l.kind # "nodata")
    IN  IF Len(dataLines) = 0 THEN Line("empty", <<>>)
        ELSE IF Len(dataLines) = 1 THEN dataLines[1]
        ELSE Line("bad", <<>>)

\* /\r?\n\r?\n/.exec(buffer): the index of the first blank line, 0 if none.
DelimiterIndex(buffer) ==
    IF \E i \in 1..Len(buffer) : buffer[i] = SepLine
    THEN CHOOSE i \in 1..Len(buffer) :
             buffer[i] = SepLine /\ \A j \in 1..(i - 1) : buffer[j] # SepLine
    ELSE 0

\* A variant without the assembledText.endsWith(nextText) test.
resolveStreamDelta_WithoutSuffixTest(nextText, assembledText) ==
    IF nextText = <<>>
    THEN [deltaText |-> <<>>, mergedText |-> assembledText]
    ELSE IF assembledText = <<>>
    THEN [deltaText |-> nextText, mergedText |-> nextText]
    ELSE IF IsPrefix(assembledText, nextText)
    THEN [deltaText |-> SubSeq(nextText, Len(assembledText) + 1, Len(nextText)),
          mergedText |-> nextText]
    ELSE IF IsPrefix(nextText, assembledText)
    THEN [deltaText |-> <<>>, mergedText |-> assembledText]
    ELSE [deltaText |-> nextText, mergedText |-> assembledText \o nextText]

\* resolveStreamDelta(nextText, assembledText) of the Gemini providers.
resolveStreamDelta(nextText, assembledText) ==
    IF nextText = <<>>
    THEN [deltaText |-> <<>>, mergedText |-> assembledText]
    ELSE IF assembledText = <<>>
    THEN [deltaText |-> nextText, mergedText |-> nextText]
    ELSE IF IsPrefix(assembledText, nextText)
    THEN [deltaText |-> SubSeq(nextText, Len(assembledText) + 1, Len(nextText)),
          mergedText |-> nextText]
    ELSE IF IsPrefix(nextText, assembledText) \/ IsSuffix(nextText, assembledText)
    THEN [deltaText |-> <<>>, mergedText |-> assembledText]
    ELSE [deltaText |-> nextText, mergedText |-> assembledText \o nextText]

\* The body of `for await (const payload of readSseJsonEvents(...))` for one
\* payload whose delta parser returned text.
HandlePayload(s, text) ==
    LET r == IF DiffsSnapshots(provider)
             THEN resolveStreamDelta(text, s.assembledText)
             ELSE [deltaText |-> text, mergedText |-> s.assembledText]
        s1 == [s EXCEPT !.assembledText = r.mergedText]
    IN  IF r.deltaText = <<>> THEN s1
        ELSE [s1 EXCEPT !.emittedAnyDelta = TRUE,
                        !.events = Append(@, Event("text-delta", r.deltaText))]

\* A variant whose catch block also throws away what is left in the buffer.
ParseAndYield_DroppingTheBuffer(s, rawData) ==
    LET s1 == [s EXCEPT !.parsedAfterDone = IF s.doneSeen THEN @ + 1 ELSE @,
                        !.doneSeen = @ \/ rawData.kind = "done"]
    IN  IF rawData.kind = "json" THEN HandlePayload(s1, rawData.text)
        ELSE [s1 EXCEPT !.buffer = <<>>]

\* JSON.parse(rawData) inside try/catch, and the consumer's loop body when it
\* yields.  A payload that does not parse is skipped.
ParseAndYield(s, rawData) ==
    LET s1 == [s EXCEPT !.parsedAfterDone = IF s.doneSeen THEN @ + 1 ELSE @,
                        !.doneSeen = @ \/ rawData.kind = "done"]
    IN  IF rawData.kind = "json" THEN HandlePayload(s1, rawData.text) ELSE s1

\* The inner while (true) loop of readSseJsonEvents: cuts the records that
\* are complete in the buffer.  The result says whether the reader returned.
RECURSIVE DrainBuffer(_)
DrainBuffer(s) ==
    LET i == DelimiterIndex(s.buffer)
        rawEvent == SubSeq(s.buffer, 1, i - 1)
        rawData == extractSseDataPayload(rawEvent)
        s1 == [s EXCEPT !.buffer = SubSeq(s.buffer, i + 1, Len(s.buffer))]
    IN  IF i = 0 THEN [returned |-> FALSE, s |-> s]
        ELSE IF rawData.kind = "empty" THEN DrainBuffer(s1)
        ELSE IF rawData.kind = "done" /\ ReturnsAtDone(provider)
        THEN [returned |-> TRUE, s |-> [s1 EXCEPT !.doneSeen = TRUE]]
        ELSE DrainBuffer(ParseAndYield(s1, rawData))

\* A variant that returns without the done event.
FinishStream_WithoutDone(s) == [s EXCEPT !.pc = "returned"]

\* After the for await loop: yield { type: 'done' }; return.
FinishStream(s) ==
    [s EXCEPT !.events = Append(@, Event("done", <<>>)), !.pc = "returned"]

\* The top of the outer while (true) loop of readSseJsonEvents.
ReaderLoopTop(s) ==
    IF aborted THEN ProviderCatch(RaiseAbort(s, "reader"), AbortErrorOf(s))
    ELSE [s EXCEPT !.pc = "read"]

\* After `done` from reader.read(): the residual payload, where it is parsed.
DrainResidual(s) ==
    LET residualData == extractSseDataPayload(s.buffer)
        s1 == [s EXCEPT !.buffer = <<>>]
    IN  IF ~ParsesResidual(provider) THEN s
        ELSE IF residualData.kind \in {"empty", "done"} THEN s1
        ELSE ParseAndYield(s1, residualData)

\* fetchWithRetry returned `response` to generate() or generateStream().
ResponseReturned(s, statusCode, hasBody) ==
    LET s1 == [LeaveFetchWithRetry(s) EXCEPT !.status = statusCode]
    IN  IF ~ResponseOk(statusCode) THEN [s1 EXCEPT !.pc = "errBody"]
        ELSE IF mode = "generate" THEN [s1 EXCEPT !.pc = "body"]
        ELSE IF ~hasBody
        THEN ProviderCatch(s1, Err("StreamBodyEmpty", 0, KeyOf(s1)))
        ELSE ReaderLoopTop(s1)

\* The try block of fetchWithRetry after fetchImpl resolved.
OnResponse(s, statusCode, hasBody) ==
    IF shouldRetryStatus(statusCode) /\ MayRetryResponse(s.attempt)
    THEN StartWait(s, "try")
    ELSE ResponseReturned(s, statusCode, hasBody)

\* new Error(`HTTP ${response.status}: ${details}`)
HttpError(s) == Err("HttpError", s.status, KeyOf(s))

\* ------------------------------------------------------------ the actions
\* The caller calls generate(params), or pulls the first event of
\* generateStream(params).
Call ==
    /\ run.pc = "idle"
    /\ run' = CallProvider(run)
    /\ UNCHANGED <<core, provider, mode, config, maxRetries, maxRetryDelayMs, aborted,
                   streamLeft>>

\* The caller aborts the signal.  A pending retry wait runs onAbort: it
\* clears the timer and rejects.
Abort ==
    /\ ~aborted
    /\ run.pc \notin {"returned", "thrown"}
    /\ aborted' = TRUE
    /\ run' = IF run.pc = "wait" THEN WaitRejected(run) ELSE run
    /\ UNCHANGED <<core, provider, mode, config, maxRetries, maxRetryDelayMs, streamLeft>>

\* fetchImpl resolves with a response.
FetchResolve ==
    /\ run.pc = "fetch"
    /\ \E statusCode \in Statuses, hasBody \in BOOLEAN :
           run' = OnResponse([run EXCEPT !.lastOutcome =
                                 Err("Response", statusCode, KeyOf(run))],
                             statusCode, hasBody)
    /\ UNCHANGED <<core, provider, mode, config, maxRetries, maxRetryDelayMs, aborted,
                   streamLeft>>

\* fetchImpl rejects with a network error.
FetchReject ==
    /\ run.pc = "fetch"
    /\ run' = FetchCatch([run EXCEPT !.lastOutcome =
                                 Err("NetworkError", 0, KeyOf(run))],
                         Err("NetworkError", 0, KeyOf(run)))
    /\ UNCHANGED <<core, provider, mode, config, maxRetries, maxRetryDelayMs, aborted,
                   streamLeft>>

\* fetchImpl rejects with AbortError: the signal is aborted.
FetchAbort ==
    /\ run.pc = "fetch"
    /\ aborted
    /\ run' = FetchCatch(RaiseAbort(run, "request"), AbortErrorOf(run))
    /\ UNCHANGED <<core, provider, mode, config, maxRetries, maxRetryDelayMs, aborted,
                   streamLeft>>

\* The timer of waitForRetryDelay fires.
WaitElapsed ==
    /\ run.pc = "wait"
    /\ run' = AfterWait(run)
    /\ UNCHANGED <<core, provider, mode, config, maxRetries, maxRetryDelayMs, aborted,
                   streamLeft>>

\* readErrorDetails(response) returns; it swallows every error of
\* response.json() and response.text().  Then throw new Error(`HTTP ...`).
ErrorBodyRead ==
    /\ run.pc = "errBody"
    /\ run' = ProviderCatch(run, HttpError(run))
    /\ UNCHANGED <<core, provider, mode, config, maxRetries, maxRetryDelayMs, aborted,
                   streamLeft>>

\* The signal is aborted while readErrorDetails reads the body: the
\* AbortError of response.json() and of response.text() is swallowed by its
\* catch blocks, and the HTTP error is thrown all the same.
ErrorBodyAbort ==
    /\ run.pc = "errBody"
    /\ aborted
    /\ run' = ProviderCatch(RaiseAbort(run, "errorBody"), HttpError(run))
    /\ UNCHANGED <<core, provider, mode, config, maxRetries, maxRetryDelayMs, aborted,
                   streamLeft>>

\* The bodies of an OK batch response: a JSON document with the text fields
\* of the protocol, a JSON document without them, text that is not JSON and
\* no text at all.
BatchBodies == {"JsonWithText", "JsonWithoutText", "NotJson", "Empty"}

\* response.json(): JSON.parse of the body text, which throws a SyntaxError
\* for text that is not JSON and for the empty text.
responseJson(body) ==
    IF body \in {"NotJson", "Empty"} THEN "SyntaxError" ELSE body

\* parseOpenAiText / parseAnthropicText / parseGeminiText: the text fields
\* joined, the empty text when there are none.
parseAssistantText(responseData) ==
    IF responseData = "JsonWithText" THEN <<"a">> ELSE <<>>

\* generate: response.json() resolves; the text is parsed and split.
BodyParsed ==
    /\ run.pc = "body"
    /\ \E body \in BatchBodies :
           /\ responseJson(body) # "SyntaxError"
           /\ run' = [run EXCEPT !.pc = "returned",
                                 !.resultText = parseAssistantText(responseJson(body)),
                                 !.lastOutcome = Err(body, 200, KeyOf(run))]
    /\ UNCHANGED <<core, provider, mode, config, maxRetries, maxRetryDelayMs, aborted,
                   streamLeft>>

\* generate: response.json() rejects, the body is not JSON.
BodyInvalid ==
    /\ run.pc = "body"
    /\ \E body \in BatchBodies : responseJson(body) = "SyntaxError"
    /\ run' = ProviderCatch([run EXCEPT !.lastOutcome =
                                    Err("SyntaxError", 0, KeyOf(run))],
                            Err("SyntaxError", 0, KeyOf(run)))
    /\ UNCHANGED <<core, provider, mode, config, maxRetries, maxRetryDelayMs, aborted,
                   streamLeft>>

\* generate: response.json() rejects with AbortError.
BodyAbort ==
    /\ run.pc = "body"
    /\ aborted
    /\ run' = ProviderCatch(RaiseAbort(run, "body"), AbortErrorOf(run))
    /\ UNCHANGED <<core, provider, mode, config, maxRetries, maxRetryDelayMs, aborted,
                   streamLeft>>

\* reader.read() resolves with data: buffer += decoder.decode(value), the
\* inner loop cuts the complete records, then the outer loop goes round.
ReadChunk ==
    /\ run.pc = "read"
    /\ streamLeft > 0
    /\ \E chunk \in Chunks(streamLeft) :
           LET d == DrainBuffer([run EXCEPT !.buffer = @ \o chunk,
                                            !.received =
                                                IF run.keepsReceived
                                                THEN @ \o chunk ELSE @])
           IN  /\ run' = IF d.returned THEN FinishStream(d.s)
                         ELSE ReaderLoopTop(d.s)
               /\ streamLeft' = streamLeft - Len(chunk)
    /\ UNCHANGED <<core, provider, mode, config, maxRetries, maxRetryDelayMs, aborted>>

\* reader.read() resolves with done: the byte stream closed.
ReadClosed ==
    /\ run.pc = "read"
    /\ run' = FinishStream(DrainResidual(run))
    /\ UNCHANGED <<core, provider, mode, config, maxRetries, maxRetryDelayMs, aborted,
                   streamLeft>>

\* reader.read() rejects with a network error.
ReadError ==
    /\ run.pc = "read"
    /\ run' = ProviderCatch([run EXCEPT !.lastOutcome =
                                    Err("ReadError", 0, KeyOf(run))],
                            Err("ReadError", 0, KeyOf(run)))
    /\ UNCHANGED <<core, provider, mode, config, maxRetries, maxRetryDelayMs, aborted,
                   streamLeft>>

\* reader.read() rejects with AbortError: the signal is aborted.
ReadAbort ==
    /\ run.pc = "read"
    /\ aborted
    /\ run' = ProviderCatch(RaiseAbort(run, "reader"), AbortErrorOf(run))
    /\ UNCHANGED <<core, provider, mode, config, maxRetries, maxRetryDelayMs, aborted,
                   streamLeft>>

Init ==
    /\ provider \in Providers
    /\ mode \in Modes
    /\ config \in Configs
    /\ (BuildsRequestPerKey(provider) \/ config.imagesSupported)
    /\ maxRetries \in {0, MaxRetriesBound}
    /\ maxRetryDelayMs \in RetryDelayOptions
    /\ aborted = FALSE
    /\ streamLeft = MaxLines
    /\ run = InitRun
    /\ core = NoCore

Next ==
    \/ Call
    \/ Abort
    \/ FetchResolve
    \/ FetchReject
    \/ FetchAbort
    \/ WaitElapsed
    \/ ErrorBodyRead
    \/ ErrorBodyAbort
    \/ BodyParsed
    \/ BodyInvalid
    \/ BodyAbort
    \/ ReadChunk
    \/ ReadClosed
    \/ ReadError
    \/ ReadAbort

Spec == Init /\ [][Next]_vars

\* The runs that explore the SSE reader: one streaming call with one API
\* key and no retry, and a longer stream.
InitReader ==
    /\ provider \in Providers
    /\ mode = "generateStream"
    /\ config = [apiUrl |-> TRUE, model |-> TRUE, apiKey |-> TRUE,
                 backupApiKey |-> FALSE, imagesSupported |-> TRUE]
    /\ maxRetries = 0
    /\ maxRetryDelayMs = DefaultMaxRetryDelayMs
    /\ aborted = FALSE
    /\ streamLeft = MaxReaderLines
    /\ run = [InitRun EXCEPT !.keepsReceived = TRUE]
    /\ core = NoCore

NextReader ==
    \/ Call
    \/ Abort
    \/ FetchResolve
    \/ FetchReject
    \/ FetchAbort
    \/ ErrorBodyRead
    \/ ErrorBodyAbort
    \/ ReadChunk
    \/ ReadClosed
    \/ ReadError
    \/ ReadAbort

SpecReader == InitReader /\ [][NextReader]_vars

\* ------------------------------------------- runs of the core functions
\* No provider call is made in the runs below.
NoClientCall ==
    /\ provider = "gemini"
    /\ mode = "generateStream"
    /\ config = [apiUrl |-> TRUE, model |-> TRUE, apiKey |-> TRUE,
                 backupApiKey |-> FALSE, imagesSupported |-> TRUE]
    /\ maxRetries = 0
    /\ maxRetryDelayMs = DefaultMaxRetryDelayMs
    /\ streamLeft = 0
    /\ run = InitRun

\* The texts of at most n characters over a two-letter alphabet.
Strings(n) == UNION {[1..k -> {"a", "b"}] : k \in 0..n}

\* The Gemini generateStream loop alone: assembledText starts empty, and each
\* payload's text goes through resolveStreamDelta.
InitStreamDelta ==
    /\ NoClientCall
    /\ aborted = FALSE
    /\ core = [pc |-> "await", assembledText |-> <<>>, before |-> <<>>,
               nextText |-> <<>>, deltaText |-> <<>>]

\* const deltaResult = resolveStreamDelta(streamText, assembledText);
\* assembledText = deltaResult.mergedText
NextPayload ==
    /\ core.pc \in {"await", "resolved"}
    /\ \E streamText \in Strings(MaxPayloadLen) :
           LET deltaResult == resolveStreamDelta(streamText, core.assembledText)
           IN  /\ Len(deltaResult.mergedText) <= MaxAssembledLen
               /\ core' = [pc |-> "resolved",
                           assembledText |-> deltaResult.mergedText,
                           before |-> core.assembledText,
                           nextText |-> streamText,
                           deltaText |-> deltaResult.deltaText]
    /\ UNCHANGED <<clientVars, aborted>>

SpecStreamDelta == InitStreamDelta /\ [][NextPayload]_vars

\* ----------------------------------------------------------- pseudo-stream
\* The characters of a text, by the classes pseudo-stream.js tells apart:
\* a letter, sentence punctuation, clause punctuation, a newline, a blank.
Letter == "a"
SentenceMark == "."
ClauseMark == ","
Newline == "n"
Blank == "_"
Characters == {Letter, SentenceMark, ClauseMark, Newline, Blank}

\* SENTENCE_PUNCTUATION_REGEX, CLAUSE_PUNCTUATION_REGEX, BOUNDARY_REGEX
IsSentencePunctuation(char) == char = SentenceMark
IsClausePunctuation(char) == char = ClauseMark
IsBoundary(char) == char \in {Blank, Newline}

Max(a, b) == IF a >= b THEN a ELSE b

resolveChunkSize(remainingLength) ==
    IF remainingLength <= 24 THEN 1
    ELSE IF remainingLength <= 80 THEN 2
    ELSE IF remainingLength <= 200 THEN 4
    ELSE IF remainingLength <= 500 THEN 6
    ELSE IF remainingLength <= 1000 THEN 8
    ELSE 12

\* findChunkBoundary(text, startIndex, targetIndex, lookahead), with the
\* indexes of the code: text[index] is the TLA+ element index + 1.
findChunkBoundary(text, startIndex, targetIndex, lookahead) ==
    LET safeTargetIndex == Min(Len(text), Max(startIndex + 1, targetIndex))
        searchEnd == Min(Len(text), safeTargetIndex + lookahead)
        ahead == {index \in safeTargetIndex..(searchEnd - 1) :
                     \/ IsSentencePunctuation(text[index + 1])
                     \/ IsClausePunctuation(text[index + 1])
                     \/ text[index + 1] = Newline}
        behind == {index \in (startIndex + 1)..(safeTargetIndex - 1) :
                      IsBoundary(text[index + 1])}
    IN  IF ahead # {}
        THEN (CHOOSE index \in ahead : \A other \in ahead : index <= other) + 1
        ELSE IF behind # {}
        THEN (CHOOSE index \in behind : \A other \in behind : index >= other) + 1
        ELSE safeTargetIndex

\* The while loop of buildPseudoStreamChunks from `cursor` on.
RECURSIVE ChunksFrom(_, _, _)
ChunksFrom(text, cursor, lookahead) ==
    IF cursor >= Len(text) THEN <<>>
    ELSE LET remainingLength == Len(text) - cursor
             chunkSize == resolveChunkSize(remainingLength)
             targetIndex == cursor + chunkSize
             endIndex == findChunkBoundary(text, cursor, targetIndex, lookahead)
             chunk == SubSeq(text, cursor + 1, endIndex)
         IN  IF chunk = <<>> THEN <<>>
             ELSE <<chunk>> \o ChunksFrom(text, endIndex, lookahead)

\* chunk.trimEnd(): blanks and newlines are white space.
RECURSIVE trimEnd(_)
trimEnd(chunk) ==
    IF chunk # <<>> /\ chunk[Len(chunk)] \in {Blank, Newline}
    THEN trimEnd(SubSeq(chunk, 1, Len(chunk) - 1))
    ELSE chunk

\* A variant that chunks the text without its trailing white space.
buildPseudoStreamChunks_OfTrimmedText(text, lookahead) ==
    IF text = <<>> THEN <<>> ELSE ChunksFrom(trimEnd(text), 0, lookahead)

buildPseudoStreamChunks(text, lookahead) ==
    IF text = <<>> THEN <<>> ELSE ChunksFrom(text, 0, lookahead)

resolveChunkDelayMs(chunk, baseDelayMs) ==
    LET trimmed == trimEnd(chunk)
        lastChar == trimmed[Len(trimmed)]
    IN  IF trimmed = <<>> THEN baseDelayMs
        ELSE IF IsSentencePunctuation(lastChar) THEN baseDelayMs + 35
        ELSE IF IsClausePunctuation(lastChar) \/ lastChar = Newline
        THEN baseDelayMs + 20
        ELSE baseDelayMs

\* A variant that never looks at the signal before the timer is armed.
waitForChunkDelay_WithoutAbortedCheck(delayMs, signalAborted) ==
    IF delayMs <= 0 THEN "true" ELSE "pending"

\* waitForChunkDelay(delayMs, signal): what it resolves with at once, or
\* that the timer is armed.
waitForChunkDelay(delayMs, signalAborted) ==
    IF delayMs <= 0 THEN (IF signalAborted THEN "false" ELSE "true")
    ELSE IF signalAborted THEN "false"
    ELSE "pending"

\* The texts replayed: every text of at most MaxHeadLen characters, alone and
\* followed by enough letters for the chunk sizes 2 and 4 to occur.
Filler(n) == [i \in 1..n |-> Letter]
FillerLengths == {0, 81}
PseudoTexts ==
    {head \o Filler(n) :
        head \in UNION {[1..k -> Characters] : k \in 0..MaxHeadLen},
        n \in FillerLengths}

NoCall == [renderedText |-> <<>>, chunk |-> <<>>]

\* runPseudoStream({text, signal, baseDelayMs, lookahead, onProgress}) called
\* with an onProgress function; the signal is `aborted`.
InitPseudoStream ==
    /\ NoClientCall
    /\ aborted \in BOOLEAN
    /\ \E text \in PseudoTexts, lookahead \in {0, 8}, baseDelayMs \in {0, 20} :
           core = [pc |-> "idle", text |-> text, lookahead |-> lookahead,
                   baseDelayMs |-> baseDelayMs, chunks |-> <<>>, index |-> 0,
                   renderedText |-> <<>>, delayMs |-> 0,
                   calls |-> 0, lastCall |-> NoCall, prevCall |-> NoCall,
                   callsAtAbort |-> 0,
                   result |-> [renderedText |-> <<>>, interrupted |-> FALSE,
                               chunkCount |-> 0]]

\* A variant that returns the text without its trailing white space.
ReturnPseudoStream_TrimmedText(c, interrupted) ==
    [c EXCEPT !.pc = "returned",
              !.result = [renderedText |-> trimEnd(c.renderedText),
                          interrupted |-> interrupted,
                          chunkCount |-> Len(c.chunks)]]

\* return { renderedText, interrupted, chunkCount: chunks.length }
ReturnPseudoStream(c, interrupted) ==
    [c EXCEPT !.pc = "returned",
              !.result = [renderedText |-> c.renderedText,
                          interrupted |-> interrupted,
                          chunkCount |-> Len(c.chunks)]]

\* const chunks = buildPseudoStreamChunks(text, { lookahead })
CallRunPseudoStream ==
    /\ core.pc = "idle"
    /\ core' = [core EXCEPT !.pc = "loop",
                            !.chunks = buildPseudoStreamChunks(core.text,
                                                               core.lookahead)]
    /\ UNCHANGED <<clientVars, aborted>>

\* The for loop is over: return with interrupted: false.
PseudoStreamCompletes ==
    /\ core.pc = "loop"
    /\ core.index >= Len(core.chunks)
    /\ core' = ReturnPseudoStream(core, FALSE)
    /\ UNCHANGED <<clientVars, aborted>>

\* if (signal?.aborted) return {..., interrupted: true} at the loop top.
PseudoStreamStopsBeforeChunk ==
    /\ core.pc = "loop"
    /\ core.index < Len(core.chunks)
    /\ aborted
    /\ core' = ReturnPseudoStream(core, TRUE)
    /\ UNCHANGED <<clientVars, aborted>>

\* renderedText += chunk; onProgress(renderedText, chunk), which may abort
\* the signal; then waitForChunkDelay(resolveChunkDelayMs(...), signal).
EmitChunk ==
    /\ core.pc = "loop"
    /\ core.index < Len(core.chunks)
    /\ ~aborted
    /\ \E callbackAborts \in BOOLEAN :
           LET chunk == core.chunks[core.index + 1]
               delayMs == resolveChunkDelayMs(chunk, core.baseDelayMs)
               c1 == [core EXCEPT !.renderedText = @ \o chunk,
                                  !.calls = @ + 1,
                                  !.prevCall = core.lastCall,
                                  !.lastCall = [renderedText |->
                                                    core.renderedText \o chunk,
                                                chunk |-> chunk],
                                  !.callsAtAbort = IF callbackAborts
                                                   THEN core.calls + 1 ELSE @,
                                  !.delayMs = delayMs]
               shouldContinue == waitForChunkDelay(delayMs, callbackAborts)
           IN  /\ aborted' = callbackAborts
               /\ core' = CASE shouldContinue = "pending" ->
                                   [c1 EXCEPT !.pc = "wait"]
                             [] shouldContinue = "true" ->
                                   [c1 EXCEPT !.index = @ + 1]
                             [] OTHER -> ReturnPseudoStream(c1, TRUE)
    /\ UNCHANGED clientVars

\* The timer of waitForChunkDelay fires: resolve(true).
ChunkDelayElapsed ==
    /\ core.pc = "wait"
    /\ core' = [core EXCEPT !.pc = "loop", !.index = @ + 1]
    /\ UNCHANGED <<clientVars, aborted>>

\* The signal is aborted during the wait: onAbort clears the timer and
\* resolves false, and runPseudoStream returns.
AbortChunkDelay ==
    /\ core.pc = "wait"
    /\ ~aborted
    /\ aborted' = TRUE
    /\ core' = ReturnPseudoStream([core EXCEPT !.callsAtAbort = core.calls], TRUE)
    /\ UNCHANGED clientVars

NextPseudoStream ==
    \/ CallRunPseudoStream
    \/ PseudoStreamCompletes
    \/ PseudoStreamStopsBeforeChunk
    \/ EmitChunk
    \/ ChunkDelayElapsed
    \/ AbortChunkDelay

SpecPseudoStream == InitPseudoStream /\ [][NextPseudoStream]_vars

\* ------------------------------------------------ marker-stream-splitter
\* Longest buffer the splitter is driven to, and longest text of one push.
MaxBufferLen == 4
MaxDeltaLen == 2

MarkerOpen == "<"
MarkerClose == ">"
SplitterCharacters == {Letter, Blank, MarkerOpen, MarkerClose}

\* String.prototype.trim(): white space removed at both ends.
RECURSIVE trimStart(_)
trimStart(text) ==
    IF text # <<>> /\ text[1] \in {Blank, Newline}
    THEN trimStart(Tail(text))
    ELSE text

\* A variant that removes the white space at the end only.
trim_AtTheEndOnly(text) == trimEnd(text)

trim(text) == trimStart(trimEnd(text))

\* The sequence without the elements that occur earlier in it: [...new Set(.)]
RECURSIVE Unique(_)
Unique(list) ==
    IF list = <<>> THEN <<>>
    ELSE LET front == Unique(SubSeq(list, 1, Len(list) - 1))
             last == list[Len(list)]
         IN  IF \E i \in DOMAIN front : front[i] = last
             THEN front
             ELSE Append(front, last)

\* normalizeMarkers(markers) of an array of strings: trimmed, the empty ones
\* dropped, duplicates removed.
normalizeMarkers(markers) ==
    Unique(SelectSeq([i \in DOMAIN markers |-> trim(markers[i])],
                     LAMBDA marker : marker # <<>>))

\* buffer.indexOf(marker), zero-based, -1 when the marker does not occur.
indexOf(buffer, marker) ==
    LET found == {i \in 0..(Len(buffer) - Len(marker)) :
                     SubSeq(buffer, i + 1, i + Len(marker)) = marker}
    IN  IF found = {} THEN -1
        ELSE CHOOSE i \in found : \A other \in found : i <= other

NoMatch == [index |-> -1, length |-> 0]

\* A variant of the loop in which the first marker of the list wins a tie.
RECURSIVE NextMatchAmong_FirstListedWinsTie(_, _, _)
NextMatchAmong_FirstListedWinsTie(buffer, markers, count) ==
    IF count = 0 THEN NoMatch
    ELSE LET nextMatch ==
                 NextMatchAmong_FirstListedWinsTie(buffer, markers, count - 1)
             marker == markers[count]
             index == indexOf(buffer, marker)
         IN  IF index = -1 THEN nextMatch
             ELSE IF nextMatch = NoMatch \/ index < nextMatch.index
             THEN [index |-> index, length |-> Len(marker)]
             ELSE nextMatch

\* The for loop of findNextMarker over the first `count` markers of the list.
RECURSIVE NextMatchAmong(_, _, _)
NextMatchAmong(buffer, markers, count) ==
    IF count = 0 THEN NoMatch
    ELSE LET nextMatch == NextMatchAmong(buffer, markers, count - 1)
             marker == markers[count]
             index == indexOf(buffer, marker)
         IN  IF index = -1 THEN nextMatch
             ELSE IF \/ nextMatch = NoMatch
                     \/ index < nextMatch.index
                     \/ (index = nextMatch.index
                            /\ Len(marker) > nextMatch.length)
             THEN [index |-> index, length |-> Len(marker)]
             ELSE nextMatch

\* A variant of findNextMarker with that loop.
findNextMarker_FirstListedWinsTie(buffer, markers) ==
    NextMatchAmong_FirstListedWinsTie(buffer, markers, Len(markers))

\* findNextMarker(buffer, markers); NoMatch stands for null.
findNextMarker(buffer, markers) ==
    NextMatchAmong(buffer, markers, Len(markers))

\* The while loop of push(): the segments pushed and the buffer left, with the
\* cuts made on the way.
RECURSIVE SplitBuffer(_, _)
SplitBuffer(buffer, activeMarkers) ==
    LET nextMarker == findNextMarker(buffer, activeMarkers)
    IN  IF buffer = <<>> \/ nextMarker = NoMatch
        THEN [segments |-> <<>>, buffer |-> buffer, cuts |-> <<>>]
        ELSE LET segment == trim(SubSeq(buffer, 1, nextMarker.index))
                 rest == SplitBuffer(
                             SubSeq(buffer,
                                    nextMarker.index + nextMarker.length + 1,
                                    Len(buffer)),
                             activeMarkers)
             IN  [segments |-> (IF segment # <<>> THEN <<segment>> ELSE <<>>)
                                   \o rest.segments,
                  buffer |-> rest.buffer,
                  cuts |-> <<[buffer |-> buffer, index |-> nextMarker.index,
                              length |-> nextMarker.length,
                              segment |-> segment]>> \o rest.cuts]

\* The marker lists the splitter is created with.
MarkerLists ==
    { <<<<MarkerOpen, MarkerClose>>>>,
      <<<<MarkerOpen>>, <<MarkerOpen, MarkerClose>>>>,
      <<<<MarkerOpen, MarkerClose>>, <<MarkerOpen>>>>,
      <<<<MarkerClose>>, <<Blank, MarkerOpen, MarkerClose, Blank>>,
        <<MarkerOpen, MarkerClose>>>>,
      <<<<Blank>>>>,
      <<>> }

SplitterTexts(n) == UNION {[1..k -> SplitterCharacters] : k \in 0..n}

\* Before createMarkerStreamSplitter({ markers }) is called.
InitSplitter ==
    /\ NoClientCall
    /\ aborted = FALSE
    /\ \E markers \in MarkerLists :
           core = [pc |-> "idle", markers |-> markers, activeMarkers |-> <<>>,
                   buffer |-> <<>>, op |-> "none", textDelta |-> <<>>,
                   joined |-> <<>>, segments |-> <<>>, cuts |-> <<>>,
                   remaining |-> <<>>]

\* createMarkerStreamSplitter({ markers })
CreateMarkerStreamSplitter ==
    /\ core.pc = "idle"
    /\ LET activeMarkers == normalizeMarkers(core.markers)
       IN  core' = [core EXCEPT
                        !.pc = IF activeMarkers = <<>> THEN "thrown"
                               ELSE "created",
                        !.activeMarkers = activeMarkers]
    /\ UNCHANGED <<aborted, clientVars>>

\* push(textDelta) with a string
Push ==
    /\ core.pc = "created"
    /\ \E textDelta \in SplitterTexts(MaxDeltaLen) :
           /\ Len(core.buffer) + Len(textDelta) <= MaxBufferLen
           /\ IF textDelta = <<>>
              THEN core' = [core EXCEPT !.op = "push", !.textDelta = textDelta,
                                        !.joined = core.buffer,
                                        !.segments = <<>>, !.cuts = <<>>,
                                        !.remaining = <<>>]
              ELSE LET split == SplitBuffer(core.buffer \o textDelta,
                                            core.activeMarkers)
                   IN  core' = [core EXCEPT !.op = "push",
                                            !.textDelta = textDelta,
                                            !.joined = core.buffer \o textDelta,
                                            !.segments = split.segments,
                                            !.cuts = split.cuts,
                                            !.buffer = split.buffer,
                                            !.remaining = <<>>]
    /\ UNCHANGED <<aborted, clientVars>>

\* A variant of flush() that leaves the buffer as it is.
Flush_KeepingTheBuffer ==
    /\ core.pc = "created"
    /\ core' = [core EXCEPT !.op = "flush", !.textDelta = <<>>,
                            !.joined = <<>>, !.segments = <<>>,
                            !.cuts = <<>>, !.remaining = trim(core.buffer)]
    /\ UNCHANGED <<aborted, clientVars>>

\* flush()
Flush ==
    /\ core.pc = "created"
    /\ core' = [core EXCEPT !.op = "flush", !.textDelta = <<>>,
                            !.joined = <<>>, !.segments = <<>>,
                            !.cuts = <<>>, !.remaining = trim(core.buffer),
                            !.buffer = <<>>]
    /\ UNCHANGED <<aborted, clientVars>>

\* discardRemainder()
DiscardRemainder ==
    /\ core.pc = "created"
    /\ core' = [core EXCEPT !.op = "discardRemainder", !.textDelta = <<>>,
                            !.joined = <<>>, !.segments = <<>>,
                            !.cuts = <<>>, !.remaining = <<>>,
                            !.buffer = <<>>]
    /\ UNCHANGED <<aborted, clientVars>>

NextSplitter ==
    \/ CreateMarkerStreamSplitter
    \/ Push
    \/ Flush
    \/ DiscardRemainder

SpecSplitter == InitSplitter /\ [][NextSplitter]_vars

\* --------------------------------------------------------- context window
\* Longest conversation history handed to the context window builder.
MaxHistoryLen == 3

\* A text is a sequence of runs [class, count] of equal characters, no run
\* empty and no two neighbours of one class.  The classes: "x" a Latin
\* letter, "s" a space or a newline, "c" a CJK ideograph (U+4E00..U+9FFF),
\* "w" the ideographic space U+3000, which is white space and in
\* U+3000..U+303F.
Run(class, count) == [class |-> class, count |-> count]
CjkClasses == {"c", "w"}
WhitespaceClasses == {"s", "w"}

\* text.length
RECURSIVE TextLength(_)
TextLength(text) ==
    IF text = <<>> THEN 0 ELSE Head(text).count + TextLength(Tail(text))

\* (text.match(/[\u4e00-\u9fff\u3000-\u303f]/g) || []).length
RECURSIVE CjkLength(_)
CjkLength(text) ==
    IF text = <<>> THEN 0
    ELSE (IF Head(text).class \in CjkClasses THEN Head(text).count ELSE 0)
             + CjkLength(Tail(text))

\* Math.ceil(numerator / denominator) of naturals
CeilDiv(numerator, denominator) ==
    (numerator + denominator - 1) \div denominator

\* A variant that rounds down.
estimateTokenCount_RoundedDown(text) ==
    LET cjkChars == CjkLength(text)
        otherChars == TextLength(text) - cjkChars
    IN  (8 * cjkChars + 3 * otherChars) \div 12

\* estimateTokenCount(text): Math.ceil(cjkChars / 1.5 + otherChars / 4)
estimateTokenCount(text) ==
    LET cjkChars == CjkLength(text)
        otherChars == TextLength(text) - cjkChars
    IN  CeilDiv(8 * cjkChars + 3 * otherChars, 12)

\* content.slice(0, length)
RECURSIVE SliceTo(_, _)
SliceTo(text, length) ==
    IF text = <<>> \/ length <= 0 THEN <<>>
    ELSE IF Head(text).count >= length
    THEN <<Run(Head(text).class, length)>>
    ELSE <<Head(text)>> \o SliceTo(Tail(text), length - Head(text).count)

\* text.trim()
RECURSIVE TrimTextStart(_)
TrimTextStart(text) ==
    IF text # <<>> /\ Head(text).class \in WhitespaceClasses
    THEN TrimTextStart(Tail(text))
    ELSE text

RECURSIVE TrimTextEnd(_)
TrimTextEnd(text) ==
    IF text # <<>> /\ text[Len(text)].class \in WhitespaceClasses
    THEN TrimTextEnd(SubSeq(text, 1, Len(text) - 1))
    ELSE text

TrimText(text) == TrimTextStart(TrimTextEnd(text))

\* normalizeMaxContextMessages(value) of an integer; 0 stands for null.
normalizeMaxContextMessages(value) == IF value > 0 THEN value ELSE 0

\* The while loop of truncateContentToTokenBudget.
RECURSIVE BestPrefix(_, _, _, _, _)
BestPrefix(content, maxTokens, low, high, best) ==
    IF low > high THEN best
    ELSE LET middle == (low + high) \div 2
             candidate == SliceTo(content, middle)
             tokenCount == estimateTokenCount(candidate) + 4
         IN  IF tokenCount <= maxTokens
             THEN BestPrefix(content, maxTokens, middle + 1, high, candidate)
             ELSE BestPrefix(content, maxTokens, low, middle - 1, best)

\* A variant that does not count the 4 tokens of overhead.
truncateContentToTokenBudget_WithoutOverhead(content, maxTokens) ==
    IF content = <<>> \/ maxTokens <= 0 THEN <<>>
    ELSE TrimText(BestPrefix(content, maxTokens + 4, 0, TextLength(content),
                             <<>>))

\* truncateContentToTokenBudget(content, maxTokens)
truncateContentToTokenBudget(content, maxTokens) ==
    IF content = <<>> \/ maxTokens <= 0 THEN <<>>
    ELSE TrimText(BestPrefix(content, maxTokens, 0, TextLength(content), <<>>))

\* A variant that filters the rows without trimming their content.
normalizeHistoryForContext_Untrimmed(conversationHistory) ==
    SelectSeq([i \in DOMAIN conversationHistory |->
                  [role |-> conversationHistory[i].role,
                   content |-> conversationHistory[i].content,
                   turnId |-> conversationHistory[i].turnId]],
              LAMBDA message : /\ message.role \in {"user", "assistant"}
                               /\ message.content # <<>>)

\* normalizeHistoryForContext(conversationHistory); the content of a row is
\* its text as getContextMessageContent and stripSourcesSection give it.
normalizeHistoryForContext(conversationHistory) ==
    SelectSeq([i \in DOMAIN conversationHistory |->
                  [role |-> conversationHistory[i].role,
                   content |-> TrimText(conversationHistory[i].content),
                   turnId |-> conversationHistory[i].turnId]],
              LAMBDA message : /\ message.role \in {"user", "assistant"}
                               /\ message.content # <<>>)

\* A variant that keeps the oldest rows.
LastRows_Oldest(list, count) == SubSeq(list, 1, count)

\* list.slice(-count)
LastRows(list, count) == SubSeq(list, Len(list) - count + 1, Len(list))

\* selected.reverse()
Reversed(list) == [i \in DOMAIN list |-> list[Len(list) + 1 - i]]

\* The contents of the rows a history is drawn from.
HistoryContents ==
    { <<Run("x", 8)>>,
      <<Run("s", 2), Run("x", 3), Run("w", 1)>>,
      <<Run("s", 3)>>,
      <<Run("x", 4100)>>,
      <<Run("c", 1500), Run("s", 100), Run("x", 100)>> }

HistoryRoles == {"user", "assistant", "system"}

\* The rows: every content as a user row, some as assistant or system rows.
HistoryRows ==
    {row \in [role : HistoryRoles, content : HistoryContents] :
        \/ row.role = "user"
        \/ row.role = "assistant" /\ row.content[1].count = 2
        \/ row.role = "system" /\ row.content[1].count = 8}

\* The histories, each row with a turnId of its own.
Histories ==
    UNION {{[i \in 1..n |-> [role |-> rows[i].role,
                             content |-> rows[i].content, turnId |-> i]] :
               rows \in [1..n -> HistoryRows]} : n \in 0..MaxHistoryLen}

NoWindow ==
    [messages |-> <<>>, isTrimmed |-> FALSE, tokenCount |-> 0,
     inputBudgetTokens |-> 0, maxContextMessages |-> 0]

\* Before buildContextWindow(conversationHistory, maxContextTokens,
\* maxContextMessages) is called.
InitContextWindow ==
    /\ NoClientCall
    /\ aborted = FALSE
    /\ \E conversationHistory \in Histories,
          maxContextTokens \in {0, 1200, 6000},
          maxContextMessages \in {-1, 1, 2} :
           core = [pc |-> "idle",
                   conversationHistory |-> conversationHistory,
                   maxContextTokens |-> maxContextTokens,
                   maxContextMessages |-> maxContextMessages,
                   normalizedHistory |-> <<>>, candidateHistory |-> <<>>,
                   safeMaxMessages |-> 0, inputBudgetTokens |-> 0,
                   index |-> 0, selected |-> <<>>, usedTokens |-> 0,
                   isTrimmed |-> FALSE, truncated |-> FALSE,
                   result |-> NoWindow]

\* return { messages: selected.reverse(), isTrimmed, tokenCount: usedTokens,
\*          inputBudgetTokens, maxContextMessages: safeMaxMessages }
ReturnWindow(c) ==
    [c EXCEPT !.pc = "returned",
              !.result = [messages |-> Reversed(c.selected),
                          isTrimmed |-> c.isTrimmed,
                          tokenCount |-> c.usedTokens,
                          inputBudgetTokens |-> c.inputBudgetTokens,
                          maxContextMessages |-> c.safeMaxMessages]]

\* buildContextWindow up to the selection loop, or to the return of the
\* empty window.
CallBuildContextWindow ==
    /\ core.pc = "idle"
    /\ LET normalizedHistory ==
               normalizeHistoryForContext(core.conversationHistory)
           safeMaxMessages ==
               normalizeMaxContextMessages(core.maxContextMessages)
           overCeiling == /\ safeMaxMessages # 0
                          /\ Len(normalizedHistory) > safeMaxMessages
           candidateHistory ==
               IF overCeiling THEN LastRows(normalizedHistory, safeMaxMessages)
               ELSE normalizedHistory
           safeMaxTokens == IF core.maxContextTokens > 0
                            THEN core.maxContextTokens ELSE 200000
           reserveOutputTokens == Max(1024, (safeMaxTokens * 2) \div 10)
           inputBudgetTokens == Max(1024, safeMaxTokens - reserveOutputTokens)
           entered == [core EXCEPT !.normalizedHistory = normalizedHistory,
                                   !.candidateHistory = candidateHistory,
                                   !.safeMaxMessages = safeMaxMessages,
                                   !.isTrimmed = overCeiling]
       IN  core' = IF candidateHistory = <<>>
                   THEN ReturnWindow(
                            [entered EXCEPT !.inputBudgetTokens = safeMaxTokens])
                   ELSE [entered EXCEPT !.pc = "loop",
                                        !.inputBudgetTokens = inputBudgetTokens,
                                        !.index = Len(candidateHistory)]
    /\ UNCHANGED <<aborted, clientVars>>

\* One pass through the loop that selects the message.
SelectMessage ==
    /\ core.pc = "loop"
    /\ core.index >= 1
    /\ LET message == core.candidateHistory[core.index]
           messageTokens == estimateTokenCount(message.content) + 4
       IN  /\ core.usedTokens + messageTokens <= core.inputBudgetTokens
           /\ core' = [core EXCEPT !.selected = Append(@, message),
                                   !.usedTokens = @ + messageTokens,
                                   !.index = @ - 1]
    /\ UNCHANGED <<aborted, clientVars>>

\* A variant that leaves isTrimmed as it was.
StopAtBudget_WithoutTrimFlag ==
    /\ core.pc = "loop"
    /\ core.index >= 1
    /\ LET message == core.candidateHistory[core.index]
           messageTokens == estimateTokenCount(message.content) + 4
           truncatedContent ==
               truncateContentToTokenBudget(message.content,
                                            core.inputBudgetTokens)
       IN  /\ core.usedTokens + messageTokens > core.inputBudgetTokens
           /\ core' = IF core.selected = <<>> /\ truncatedContent # <<>>
                      THEN ReturnWindow(
                               [core EXCEPT
                                    !.selected =
                                        <<[message EXCEPT
                                               !.content = truncatedContent]>>,
                                    !.usedTokens =
                                        estimateTokenCount(truncatedContent) + 4,
                                    !.truncated = TRUE])
                      ELSE ReturnWindow(core)
    /\ UNCHANGED <<aborted, clientVars>>

\* The pass through the loop that finds the budget exceeded, and the return.
StopAtBudget ==
    /\ core.pc = "loop"
    /\ core.index >= 1
    /\ LET message == core.candidateHistory[core.index]
           messageTokens == estimateTokenCount(message.content) + 4
           truncatedContent ==
               truncateContentToTokenBudget(message.content,
                                            core.inputBudgetTokens)
           trimmed == [core EXCEPT !.isTrimmed = TRUE]
       IN  /\ core.usedTokens + messageTokens > core.inputBudgetTokens
           /\ core' = IF core.selected = <<>> /\ truncatedContent # <<>>
                      THEN ReturnWindow(
                               [trimmed EXCEPT
                                    !.selected =
                                        <<[message EXCEPT
                                               !.content = truncatedContent]>>,
                                    !.usedTokens =
                                        estimateTokenCount(truncatedContent) + 4,
                                    !.truncated = TRUE])
                      ELSE ReturnWindow(trimmed)
    /\ UNCHANGED <<aborted, clientVars>>

\* The loop has gone through the whole candidate history.
ReturnContextWindow ==
    /\ core.pc = "loop"
    /\ core.index = 0
    /\ core' = ReturnWindow(core)
    /\ UNCHANGED <<aborted, clientVars>>

NextContextWindow ==
    \/ CallBuildContextWindow
    \/ SelectMessage
    \/ StopAtBudget
    \/ ReturnContextWindow

SpecContextWindow == InitContextWindow /\ [][NextContextWindow]_vars

\* ----------------------------------------------------------- local message
\* Most parts in the raw message handed to normalizeLocalMessage.
MaxParts == 2

\* A value read from a raw field: a string, given by its word with the white
\* space around it removed and in lower case, by whether it has white space
\* around it and by whether it is written in upper case; or not a string.
Str(word) == [string |-> TRUE, word |-> word, padded |-> FALSE, upper |-> FALSE]
PaddedUpper(word) ==
    [string |-> TRUE, word |-> word, padded |-> TRUE, upper |-> word # ""]
NotAString == [string |-> FALSE, word |-> "", padded |-> FALSE, upper |-> FALSE]

\* asTrimmedString(value)
asTrimmedString(value) ==
    IF value.string THEN [value EXCEPT !.padded = FALSE] ELSE Str("")

\* value.toLowerCase()
toLowerCase(value) == [value EXCEPT !.upper = FALSE]

\* !value, of a string
IsEmptyString(value) == value.word = "" /\ ~value.padded

\* new Set(words).has(value): the string is one of the words as written.
SetHas(words, value) ==
    ~value.padded /\ ~value.upper /\ value.word \in words

LOCAL_MESSAGE_ROLES == {"user", "assistant"}
LOCAL_PART_TYPES == {"text", "image"}
IMAGE_SOURCE_TYPES == {"url", "data_url", "base64", "file_uri", "file_id"}
IMAGE_DETAIL_LEVELS == {"low", "high", "auto"}

\* A field the normalized object does not have.
Absent == "(absent)"

\* The strings, among the values used, that
\* /^data:([^;,]+);base64,(.+)$/i matches, with the trimmed lower-case
\* first group.
DataUrlMimeTypes ==
    [word \in {"data:image/png;base64,AAAA", "data: ;base64,AAAA"} |->
        IF word = "data:image/png;base64,AAAA" THEN "image/png" ELSE ""]

\* parseDataUrl(value).mimeType, or Absent where parseDataUrl returns null.
parseDataUrl(value) ==
    LET raw == asTrimmedString(value)
    IN  IF raw.word \in DOMAIN DataUrlMimeTypes
        THEN DataUrlMimeTypes[raw.word]
        ELSE Absent

\* normalizeImageDetail(value)
normalizeImageDetail(value) ==
    LET normalized == toLowerCase(asTrimmedString(value))
    IN  IF SetHas(IMAGE_DETAIL_LEVELS, normalized)
        THEN normalized.word ELSE ""

\* The written form of a string no operation has changed, as a word.
Written(value) ==
    [word |-> value.word, padded |-> value.padded, upper |-> value.upper]

NoImage ==
    [sourceType |-> Written(Str("")), value |-> Written(Str("")),
     mimeType |-> Absent, detail |-> Absent]

\* null, as the result of normalizing a part
NoPart == [type |-> "null", text |-> <<>>, image |-> NoImage]

\* normalizeTextPart(part)
normalizeTextPart(part) ==
    LET text == IF part.text.string THEN part.text.runs
                ELSE IF part.content.string THEN part.content.runs
                ELSE <<>>
    IN  IF TrimText(text) = <<>> THEN NoPart
        ELSE [type |-> "text", text |-> text, image |-> NoImage]

\* A variant that takes a base64 image without mimeType.
RequiresMimeType_Never(sourceType) == FALSE

\* sourceType === 'base64': the branch that returns null without mimeType
RequiresMimeType(sourceType) == sourceType.word = "base64"

\* normalizeImagePart(part)
normalizeImagePart(part) ==
    LET rawImage == IF part.nested THEN part.image ELSE part.flat
        sourceType == toLowerCase(asTrimmedString(rawImage.sourceType))
        value == asTrimmedString(rawImage.value)
        detail == normalizeImageDetail(rawImage.detail)
        parsedDataUrl == parseDataUrl(value)
        mimeType == toLowerCase(asTrimmedString(rawImage.mimeType))
        normalized(mime) ==
            [type |-> "image", text |-> <<>>,
             image |-> [sourceType |-> Written(sourceType),
                        value |-> Written(value),
                        mimeType |-> mime,
                        detail |-> IF detail # "" THEN detail ELSE Absent]]
    IN  IF ~SetHas(IMAGE_SOURCE_TYPES, sourceType) THEN NoPart
        ELSE IF IsEmptyString(value) THEN NoPart
        ELSE IF sourceType.word = "data_url"
        THEN IF parsedDataUrl = Absent THEN NoPart
             ELSE normalized(parsedDataUrl)
        ELSE IF RequiresMimeType(sourceType) /\ IsEmptyString(mimeType)
        THEN NoPart
        ELSE normalized(IF IsEmptyString(mimeType) THEN Absent
                        ELSE mimeType.word)

\* normalizeLocalPart(part)
normalizeLocalPart(part) ==
    LET partType == toLowerCase(asTrimmedString(part.type))
    IN  IF ~part.object THEN NoPart
        ELSE IF ~SetHas(LOCAL_PART_TYPES, partType) THEN NoPart
        ELSE IF partType.word = "text" THEN normalizeTextPart(part)
        ELSE normalizeImagePart(part)

\* normalizeLocalParts(parts): rawMessage.parts is an array or is not.
normalizeLocalParts(hasParts, parts) ==
    IF ~hasParts THEN <<>>
    ELSE SelectSeq([i \in DOMAIN parts |-> normalizeLocalPart(parts[i])],
                   LAMBDA part : part # NoPart)

\* normalizeRole(role)
normalizeRole(role) ==
    LET normalized == toLowerCase(asTrimmedString(role))
    IN  IF SetHas(LOCAL_MESSAGE_ROLES, normalized)
        THEN normalized.word ELSE ""

\* extractLegacyText(rawMessage)
extractLegacyText(rawMessage) ==
    IF rawMessage.content.string /\ TrimText(rawMessage.content.runs) # <<>>
    THEN rawMessage.content.runs
    ELSE IF rawMessage.text.string /\ TrimText(rawMessage.text.runs) # <<>>
    THEN rawMessage.text.runs
    ELSE <<>>

\* null, as the result of normalizing a message
NoMessage == [role |-> "null", parts |-> <<>>, turnId |-> Absent]

\* A variant that puts the legacy text before the parts.
MessageParts_WithLegacyText(parts, legacyText) ==
    IF legacyText # <<>>
    THEN <<[type |-> "text", text |-> legacyText, image |-> NoImage]>> \o parts
    ELSE parts

\* normalizeLocalMessage: the parts of the message, from the normalized parts
\* and the legacy text.
MessageParts(parts, legacyText) ==
    IF parts = <<>> /\ legacyText # <<>>
    THEN <<[type |-> "text", text |-> legacyText, image |-> NoImage]>>
    ELSE parts

\* normalizeLocalMessage(rawMessage)
normalizeLocalMessage(rawMessage) ==
    LET role == normalizeRole(rawMessage.role)
        parts == MessageParts(
                     normalizeLocalParts(rawMessage.hasParts, rawMessage.parts),
                     extractLegacyText(rawMessage))
        turnId == asTrimmedString(rawMessage.turnId)
    IN  IF ~rawMessage.object THEN NoMessage
        ELSE IF role = "" THEN NoMessage
        ELSE IF parts = <<>> THEN NoMessage
        ELSE [role |-> role, parts |-> parts,
              turnId |-> IF IsEmptyString(turnId) THEN Absent ELSE turnId.word]

\* A raw text field: a string of the given runs, or not a string.
Text(runs) == [string |-> TRUE, runs |-> runs]
NotAText == [string |-> FALSE, runs |-> <<>>]

RawImage(sourceType, value, mimeType, detail) ==
    [sourceType |-> sourceType, value |-> value, mimeType |-> mimeType,
     detail |-> detail]
NoRawImage == RawImage(NotAString, NotAString, NotAString, NotAString)

\* The raw image objects: the source types, values, mime types and details
\* below, each value with the source types it is meant for, and a mimeType
\* or a detail with the source types url, data_url and base64.
PaddedDataUrl ==
    [string |-> TRUE, word |-> "data:image/png;base64,AAAA", padded |-> TRUE,
     upper |-> FALSE]
RawImages ==
    {image \in
        [sourceType : {Str(word) : word \in IMAGE_SOURCE_TYPES \ {"file_uri"}}
                          \cup {PaddedUpper("base64"), Str("bogus"), NotAString},
         value : {Str("cat.png"), Str(""), PaddedUpper(""), PaddedDataUrl,
                  Str("data: ;base64,AAAA")},
         mimeType : {NotAString, PaddedUpper("image/png")},
         detail : {NotAString, PaddedUpper("high"), Str("bogus")}] :
        /\ image.value.word \in DOMAIN DataUrlMimeTypes
               => image.sourceType.word = "data_url"
        /\ image.value.word = "" => image.sourceType.word = "url"
        /\ (image.sourceType.word = "data_url" /\ image.mimeType.string)
               => image.value = PaddedDataUrl
        /\ image.sourceType = PaddedUpper("base64") => image.mimeType.string
        /\ image.mimeType.string
               => /\ image.sourceType.word \in {"url", "data_url", "base64"}
                  /\ image.value.word # ""
        /\ image.detail.string
               => /\ image.sourceType.word = "url"
                  /\ image.value.word = "cat.png"
                  /\ ~image.mimeType.string}

\* The raw parts: text parts, the images above inside part.image, one image
\* with its fields on the part itself, a part of another type and a part
\* that is no object.
RawPart(type, text, content, nested, image, flat) ==
    [object |-> TRUE, type |-> type, text |-> text, content |-> content,
     nested |-> nested, image |-> image, flat |-> flat]
RawTextPart(text) ==
    RawPart(Str("text"), text, NotAText, FALSE, NoRawImage, NoRawImage)
RawImagePart(image) ==
    RawPart(Str("image"), NotAText, NotAText, TRUE, image, NoRawImage)
RawParts ==
    {RawTextPart(Text(<<Run("s", 1), Run("x", 3)>>)),
     RawTextPart(Text(<<Run("s", 2)>>)),
     RawPart(PaddedUpper("text"), NotAText, Text(<<Run("x", 5)>>), FALSE,
             NoRawImage, NoRawImage),
     RawPart(Str("image"), NotAText, NotAText, FALSE, NoRawImage,
             RawImage(Str("url"), Str("cat.png"), NotAString, Str("low"))),
     RawPart(Str("audio"), Text(<<Run("x", 3)>>), NotAText, FALSE,
             NoRawImage, NoRawImage),
     [RawTextPart(Text(<<Run("x", 3)>>)) EXCEPT !.object = FALSE]}
        \cup {RawImagePart(image) : image \in RawImages}

RawMessage(role, hasParts, parts, content, turnId) ==
    [object |-> TRUE, role |-> role, hasParts |-> hasParts, parts |-> parts,
     content |-> content, text |-> NotAText, turnId |-> turnId]

\* The raw messages: up to MaxParts raw parts or no parts array, a role, and
\* a legacy content.
RawMessages ==
    {RawMessage(role, hasParts, parts, content, Str("turn1")) :
        role \in {Str("user"), PaddedUpper("assistant"), Str("system")},
        hasParts \in {TRUE},
        parts \in UNION {[1..n -> RawParts] : n \in 0..MaxParts},
        content \in {NotAText, Text(<<Run("x", 6), Run("s", 1)>>)}}
    \cup {RawMessage(Str("user"), FALSE, <<>>, content, NotAString) :
             content \in {NotAText, Text(<<Run("s", 2)>>),
                          Text(<<Run("x", 6), Run("s", 1)>>)}}
    \cup {[RawMessage(Str("user"), FALSE, <<>>, NotAText, NotAString)
              EXCEPT !.text = Text(<<Run("x", 4)>>)],
          [RawMessage(Str("user"), FALSE, <<>>, Text(<<Run("x", 6)>>),
                      NotAString) EXCEPT !.object = FALSE]}

\* Before normalizeLocalMessage(rawMessage) is called.
InitLocalMessage ==
    /\ NoClientCall
    /\ aborted = FALSE
    /\ \E rawMessage \in RawMessages :
           core = [pc |-> "idle", rawMessage |-> rawMessage,
                   result |-> NoMessage]

\* normalizeLocalMessage(rawMessage)
CallNormalizeLocalMessage ==
    /\ core.pc = "idle"
    /\ core' = [core EXCEPT !.pc = "returned",
                            !.result = normalizeLocalMessage(core.rawMessage)]
    /\ UNCHANGED <<aborted, clientVars>>

NextLocalMessage == CallNormalizeLocalMessage

SpecLocalMessage == InitLocalMessage /\ [][NextLocalMessage]_vars

\* ------------------------------------------------ local message envelope
\* Most rows of a history handed to buildLocalMessageEnvelope.
MaxEnvelopeHistoryLen == 2

IMAGE_CONTEXT_PLACEHOLDER == <<Run("x", 7)>>

\* The concatenation of two texts.
ConcatText(left, right) ==
    IF left = <<>> THEN right
    ELSE IF right = <<>> THEN left
    ELSE IF left[Len(left)].class = right[1].class
    THEN SubSeq(left, 1, Len(left) - 1)
             \o <<Run(right[1].class, left[Len(left)].count + right[1].count)>>
             \o Tail(right)
    ELSE left \o right

\* texts.join('\n\n')
RECURSIVE JoinTexts(_)
JoinTexts(texts) ==
    IF texts = <<>> THEN <<>>
    ELSE IF Len(texts) = 1 THEN texts[1]
    ELSE ConcatText(ConcatText(texts[1], <<Run("s", 2)>>),
                    JoinTexts(Tail(texts)))

\* hasImageParts(message) of a normalized message
hasImageParts(message) ==
    \E i \in DOMAIN message.parts : message.parts[i].type = "image"

\* getLocalMessageText(message, { imagePlaceholder }) of a normalized
\* message; the empty text stands for no placeholder.
getLocalMessageText(message, imagePlaceholder) ==
    LET text == JoinTexts(SelectSeq(
                    [i \in DOMAIN message.parts |->
                        IF message.parts[i].type = "text"
                        THEN message.parts[i].text ELSE <<>>],
                    LAMBDA partText : TrimText(partText) # <<>>))
    IN  IF text # <<>> THEN text
        ELSE IF imagePlaceholder = <<>> THEN <<>>
        ELSE IF hasImageParts(message) THEN imagePlaceholder
        ELSE <<>>

\* estimateLocalMessageTokens(message)
estimateLocalMessageTokens(message) ==
    estimateTokenCount(getLocalMessageText(message, IMAGE_CONTEXT_PLACEHOLDER))
        + 4

\* A variant that keeps the text parts and drops the image parts.
TruncatedParts_TextOnly(message, truncatedText) ==
    IF truncatedText # <<>>
    THEN <<[type |-> "text", text |-> truncatedText, image |-> NoImage]>>
    ELSE <<>>

\* truncateLocalMessageToTokenBudget: truncatedParts
TruncatedParts(message, truncatedText) ==
    SelectSeq(message.parts, LAMBDA part : part.type = "image")
        \o (IF truncatedText # <<>>
            THEN <<[type |-> "text", text |-> truncatedText,
                    image |-> NoImage]>>
            ELSE <<>>)

\* truncateLocalMessageToTokenBudget(message, maxTokens) of a normalized
\* message; NoMessage stands for null.
truncateLocalMessageToTokenBudget(message, maxTokens) ==
    LET plainText == getLocalMessageText(message, <<>>)
        imageOnlyCost ==
            IF hasImageParts(message)
            THEN estimateTokenCount(IMAGE_CONTEXT_PLACEHOLDER) + 4
            ELSE 0
        textBudget == Max(1, maxTokens - imageOnlyCost)
        truncatedText == truncateContentToTokenBudget(plainText, textBudget)
        truncatedParts == TruncatedParts(message, truncatedText)
    IN  IF maxTokens <= 0 THEN NoMessage
        ELSE IF estimateLocalMessageTokens(message) <= maxTokens THEN message
        ELSE IF truncatedParts = <<>> THEN NoMessage
        ELSE [message EXCEPT !.parts = truncatedParts]

\* normalizeHistoryForLocalMessages(conversationHistory); the content of a
\* row is its text as getContextMessageContent and stripSourcesSection give
\* it, and its parts are meta.parts.
normalizeHistoryForLocalMessages(conversationHistory) ==
    SelectSeq(
        [i \in DOMAIN conversationHistory |->
            LET message == conversationHistory[i]
            IN  IF message.role \in {"user", "assistant"}
                THEN normalizeLocalMessage(
                         [object |-> TRUE, role |-> Str(message.role),
                          hasParts |-> message.hasParts,
                          parts |-> message.parts,
                          content |-> Text(TrimText(message.content)),
                          text |-> NotAText,
                          turnId |-> Str(message.turnId)])
                ELSE NoMessage],
        LAMBDA message : message # NoMessage)

\* normalizeSystemInstruction(config)
normalizeSystemInstruction(settings) ==
    IF settings.systemPrompt.string THEN TrimText(settings.systemPrompt.runs)
    ELSE <<>>

UrlImagePart ==
    RawImagePart(RawImage(Str("url"), Str("cat.png"), NotAString, NotAString))
Base64ImagePart ==
    RawImagePart(RawImage(Str("base64"), Str("AAAA"),
                          PaddedUpper("image/png"), NotAString))
Base64PartWithoutMimeType ==
    RawImagePart(RawImage(Str("base64"), Str("AAAA"), NotAString, NotAString))

LegacyContent == <<Run("x", 8), Run("s", 1)>>

\* The rows a history is drawn from, without their turnId.
EnvelopeRow(role, content, hasParts, parts) ==
    [role |-> role, content |-> content, hasParts |-> hasParts,
     parts |-> parts]
EnvelopeRows ==
    {EnvelopeRow("user", LegacyContent, FALSE, <<>>),
     EnvelopeRow("user", LegacyContent, TRUE,
                 <<RawTextPart(Text(<<Run("s", 1), Run("x", 3)>>)),
                   UrlImagePart>>),
     EnvelopeRow("user", LegacyContent, TRUE,
                 <<RawTextPart(Text(<<Run("s", 2)>>)),
                   Base64PartWithoutMimeType>>),
     EnvelopeRow("user", <<Run("x", 4100)>>, FALSE, <<>>),
     EnvelopeRow("user", LegacyContent, TRUE,
                 <<UrlImagePart, RawTextPart(Text(<<Run("x", 4100)>>)),
                   Base64ImagePart>>),
     EnvelopeRow("user", <<>>, TRUE,
                 <<RawTextPart(Text(<<Run("x", 2000)>>)), UrlImagePart,
                   RawTextPart(Text(<<Run("c", 1500), Run("s", 40)>>))>>),
     EnvelopeRow("assistant", <<Run("s", 2)>>, TRUE, <<UrlImagePart>>),
     EnvelopeRow("system", LegacyContent, FALSE, <<>>),
     EnvelopeRow("user", <<>>, TRUE,
                 <<RawTextPart(Text(<<Run("x", 2000)>>))>>),
     EnvelopeRow("assistant", LegacyContent, TRUE,
                 <<Base64ImagePart, RawTextPart(Text(<<Run("x", 20000)>>))>>)}

TurnIds == <<"turn1", "turn2", "turn3", "turn4", "turn5">>

EnvelopeHistories ==
    UNION {{[i \in 1..n |-> [role |-> rows[i].role,
                             content |-> rows[i].content,
                             hasParts |-> rows[i].hasParts,
                             parts |-> rows[i].parts,
                             turnId |-> TurnIds[i]]] :
               rows \in [1..n -> EnvelopeRows]} :
              n \in 0..MaxEnvelopeHistoryLen}

NoEnvelope ==
    [systemInstruction |-> <<>>, messages |-> <<>>, isTrimmed |-> FALSE,
     tokenCount |-> 0, inputBudgetTokens |-> 0, maxContextMessages |-> 0]

\* Before buildLocalMessageEnvelope(conversationHistory, config,
\* { maxContextTokens, maxContextMessages }) is called.
InitLocalEnvelope ==
    /\ NoClientCall
    /\ aborted = FALSE
    /\ \E conversationHistory \in EnvelopeHistories,
          systemPrompt \in {NotAText, Text(<<Run("s", 1), Run("x", 5)>>)},
          maxContextTokens \in {1200, 6000},
          maxContextMessages \in {0, 2} :
           core = [pc |-> "idle",
                   conversationHistory |-> conversationHistory,
                   config |-> [systemPrompt |-> systemPrompt],
                   maxContextTokens |-> maxContextTokens,
                   maxContextMessages |-> maxContextMessages,
                   normalizedHistory |-> <<>>, candidateHistory |-> <<>>,
                   safeMaxMessages |-> 0, inputBudgetTokens |-> 0,
                   index |-> 0, selected |-> <<>>, usedTokens |-> 0,
                   isTrimmed |-> FALSE, truncated |-> FALSE,
                   result |-> NoEnvelope]

\* return { systemInstruction, messages: selected.reverse(), isTrimmed,
\*          tokenCount: usedTokens, inputBudgetTokens, maxContextMessages }
ReturnEnvelope(c) ==
    [c EXCEPT !.pc = "returned",
              !.result = [systemInstruction |->
                              normalizeSystemInstruction(c.config),
                          messages |-> Reversed(c.selected),
                          isTrimmed |-> c.isTrimmed,
                          tokenCount |-> c.usedTokens,
                          inputBudgetTokens |-> c.inputBudgetTokens,
                          maxContextMessages |-> c.safeMaxMessages]]

\* buildLocalMessageEnvelope up to the selection loop, or to the return of
\* the empty envelope.
CallBuildLocalMessageEnvelope ==
    /\ core.pc = "idle"
    /\ LET normalizedHistory ==
               normalizeHistoryForLocalMessages(core.conversationHistory)
           safeMaxMessages ==
               normalizeMaxContextMessages(core.maxContextMessages)
           overCeiling == /\ safeMaxMessages # 0
                          /\ Len(normalizedHistory) > safeMaxMessages
           candidateHistory ==
               IF overCeiling THEN LastRows(normalizedHistory, safeMaxMessages)
               ELSE normalizedHistory
           safeMaxTokens == IF core.maxContextTokens > 0
                            THEN core.maxContextTokens ELSE 200000
           reserveOutputTokens == Max(1024, (safeMaxTokens * 2) \div 10)
           inputBudgetTokens == Max(1024, safeMaxTokens - reserveOutputTokens)
           entered == [core EXCEPT !.normalizedHistory = normalizedHistory,
                                   !.candidateHistory = candidateHistory,
                                   !.safeMaxMessages = safeMaxMessages,
                                   !.isTrimmed = overCeiling]
       IN  core' = IF candidateHistory = <<>>
                   THEN ReturnEnvelope(
                            [entered EXCEPT !.inputBudgetTokens = safeMaxTokens])
                   ELSE [entered EXCEPT !.pc = "loop",
                                        !.inputBudgetTokens = inputBudgetTokens,
                                        !.index = Len(candidateHistory)]
    /\ UNCHANGED <<aborted, clientVars>>

\* One pass through the loop that selects the message.
SelectLocalMessage ==
    /\ core.pc = "loop"
    /\ core.index >= 1
    /\ LET message == core.candidateHistory[core.index]
           messageTokens == estimateLocalMessageTokens(message)
       IN  /\ core.usedTokens + messageTokens <= core.inputBudgetTokens
           /\ core' = [core EXCEPT !.selected = Append(@, message),
                                   !.usedTokens = @ + messageTokens,
                                   !.index = @ - 1]
    /\ UNCHANGED <<aborted, clientVars>>

\* The pass through the loop that finds the budget exceeded, and the return.
StopAtLocalBudget ==
    /\ core.pc = "loop"
    /\ core.index >= 1
    /\ LET message == core.candidateHistory[core.index]
           messageTokens == estimateLocalMessageTokens(message)
           truncatedMessage ==
               truncateLocalMessageToTokenBudget(message,
                                                 core.inputBudgetTokens)
           trimmed == [core EXCEPT !.isTrimmed = TRUE]
       IN  /\ core.usedTokens + messageTokens > core.inputBudgetTokens
           /\ core' = IF core.selected = <<>> /\ truncatedMessage # NoMessage
                      THEN ReturnEnvelope(
                               [trimmed EXCEPT
                                    !.selected = <<truncatedMessage>>,
                                    !.usedTokens = estimateLocalMessageTokens(
                                                       truncatedMessage),
                                    !.truncated = TRUE])
                      ELSE ReturnEnvelope(trimmed)
    /\ UNCHANGED <<aborted, clientVars>>

\* The loop has gone through the whole candidate history.
ReturnLocalMessageEnvelope ==
    /\ core.pc = "loop"
    /\ core.index = 0
    /\ core' = ReturnEnvelope(core)
    /\ UNCHANGED <<aborted, clientVars>>

NextLocalEnvelope ==
    \/ CallBuildLocalMessageEnvelope
    \/ SelectLocalMessage
    \/ StopAtLocalBudget
    \/ ReturnLocalMessageEnvelope

SpecLocalEnvelope == InitLocalEnvelope /\ [][NextLocalEnvelope]_vars

\* -------------------------------------------------- Anthropic request body
\* Most context messages handed to buildAnthropicRequestBody.
MaxContextMessages == 2

\* A string of this part is a sequence of pieces, each a piece of text or
\* the white space " " or "\n\n".
TrimPieces(pieces) ==
    LET kept == {i \in DOMAIN pieces : pieces[i] # " "}
    IN  IF kept = {} THEN <<>>
        ELSE SubSeq(pieces,
                    CHOOSE i \in kept : \A j \in kept : i <= j,
                    CHOOSE i \in kept : \A j \in kept : j <= i)

\* normalizeThinkingBudget(rawValue) of an integer; 0 stands for null.
normalizeThinkingBudget(rawValue) ==
    IF rawValue < MIN_THINKING_BUDGET_TOKENS THEN 0 ELSE rawValue

\* buildMarkerInstruction(enableMarkerSplit)
buildMarkerInstruction(enableMarkerSplit) ==
    IF enableMarkerSplit THEN <<"Formatting rules: ...">> ELSE <<>>

\* buildSystemInstruction(config, enableMarkerSplit)
buildSystemInstruction(settings, enableMarkerSplit) ==
    LET basePrompt == IF settings.systemPrompt.string
                      THEN TrimPieces(settings.systemPrompt.pieces)
                      ELSE <<>>
        markerInstruction == buildMarkerInstruction(enableMarkerSplit)
    IN  IF basePrompt = <<>> THEN markerInstruction
        ELSE IF markerInstruction = <<>> THEN basePrompt
        ELSE basePrompt \o <<"\n\n">> \o markerInstruction

\* asAnthropicMessage(message)
asAnthropicMessage(message) ==
    [role |-> IF message.role = "assistant" THEN "assistant" ELSE "user",
     content |-> message.content]

\* injectSystemInstructionIntoMessages(messages, systemInstruction)
injectSystemInstructionIntoMessages(messages, systemInstruction) ==
    LET systemEnvelope ==
            <<"<system>\n">> \o systemInstruction \o <<"\n</system>">>
    IN  IF systemInstruction = <<>> THEN messages
        ELSE IF messages = <<>>
        THEN <<[role |-> "user", content |-> systemEnvelope]>>
        ELSE IF messages[1].role = "user"
        THEN <<[messages[1] EXCEPT
                    !.content = systemEnvelope \o <<"\n\n">> \o @]>>
                 \o Tail(messages)
        ELSE <<[role |-> "user", content |-> systemEnvelope]>> \o messages

\* resolveMaxTokens(config, thinkingBudget)
resolveMaxTokens(settings, thinkingBudget) ==
    IF thinkingBudget # 0
    THEN Max(DEFAULT_MAX_TOKENS, thinkingBudget + 1024)
    ELSE IF settings.maxTokens > 0 THEN settings.maxTokens
    ELSE DEFAULT_MAX_TOKENS

\* buildAnthropicRequestBody(contextMessages, config, { enableMarkerSplit,
\* stream }); a field the body does not have is Absent.
buildAnthropicRequestBody(contextMessages, settings, enableMarkerSplit, stream) ==
    LET thinkingBudget == normalizeThinkingBudget(settings.thinkingBudget)
        systemInstruction == buildSystemInstruction(settings, enableMarkerSplit)
        baseMessages == [i \in DOMAIN contextMessages |->
                            asAnthropicMessage(contextMessages[i])]
        messages == injectSystemInstructionIntoMessages(baseMessages,
                                                        systemInstruction)
    IN  [model |-> settings.model,
         max_tokens |-> resolveMaxTokens(settings, thinkingBudget),
         stream |-> stream,
         messages |-> messages,
         system |-> <<Absent>>,
         thinking |-> thinkingBudget,
         tools |-> IF settings.searchMode = "anthropic_web_search"
                   THEN <<"web_search_20250305">> ELSE <<>>]

AnthropicContextMessages ==
    UNION {[1..n -> [role : {"user", "assistant"},
                     content : {<<"hello">>, <<"hi", " ", "there">>}]] :
              n \in 0..MaxContextMessages}

NoBody ==
    [model |-> "", max_tokens |-> 0, stream |-> FALSE, messages |-> <<>>,
     system |-> <<Absent>>, thinking |-> 0, tools |-> <<>>]

\* Before the Anthropic provider builds the body of its request; generate()
\* builds it with stream: false and generateStream() with stream: true, both
\* with enableMarkerSplit = (config.enablePseudoStream === true).
InitAnthropicRequest ==
    /\ NoClientCall
    /\ aborted = FALSE
    /\ \E contextMessages \in AnthropicContextMessages,
          systemPrompt \in {[string |-> FALSE, pieces |-> <<>>],
                            [string |-> TRUE, pieces |-> <<" ">>],
                            [string |-> TRUE,
                             pieces |-> <<" ", "Be brief.", " ">>]},
          enablePseudoStream \in BOOLEAN,
          thinkingBudget \in {0, 2048, 8192},
          maxTokens \in {0, 2048},
          searchMode \in {"", "anthropic_web_search"},
          stream \in BOOLEAN :
           core = [pc |-> "idle",
                   contextMessages |-> contextMessages,
                   config |-> [model |-> "claude", systemPrompt |-> systemPrompt,
                               enablePseudoStream |-> enablePseudoStream,
                               thinkingBudget |-> thinkingBudget,
                               maxTokens |-> maxTokens,
                               searchMode |-> searchMode],
                   stream |-> stream,
                   requestBody |-> NoBody]

\* const requestBody = buildAnthropicRequestBody(contextMessages, config,
\*                                               { enableMarkerSplit, stream })
BuildAnthropicRequest ==
    /\ core.pc = "idle"
    /\ core' = [core EXCEPT
                    !.pc = "built",
                    !.requestBody =
                        buildAnthropicRequestBody(
                            core.contextMessages, core.config,
                            core.config.enablePseudoStream, core.stream)]
    /\ UNCHANGED <<aborted, clientVars>>

NextAnthropicRequest == BuildAnthropicRequest

SpecAnthropicRequest == InitAnthropicRequest /\ [][NextAnthropicRequest]_vars

\* ------------------------------------------- the generation slot of a chat
\* Most sessions the store holds, and most messages of one session.
MaxSessions == 2
MaxMessages == 2

SessionIds == 1..MaxSessions
SessionTitles == {"New chat", "Renamed"}

\* store.isStreaming()
isStreaming(chat) == chat.streaming

\* The handler returned at its store.isStreaming() check.
Refused(chat, operation) ==
    [chat EXCEPT !.op = operation, !.refused = TRUE]

\* The handler ran and left the chat as `chat`.
Handled(chat, operation) ==
    [chat EXCEPT !.op = operation, !.refused = FALSE]

\* createNewSession(): a session with a fresh id, no messages and the
\* default title becomes the active one.
createNewSession(chat) ==
    LET sessionId == CHOOSE id \in SessionIds \ chat.sessions :
                         \A other \in SessionIds \ chat.sessions : id <= other
    IN  [chat EXCEPT !.sessions = @ \cup {sessionId},
                     !.activeSessionId = sessionId,
                     !.titles[sessionId] = "New chat",
                     !.messages[sessionId] = 0]

\* deleteSession(sessionId): deleting the active session opens a new one.
deleteSession(chat, sessionId) ==
    LET without == [chat EXCEPT !.sessions = @ \ {sessionId},
                                !.messages[sessionId] = 0,
                                !.titles[sessionId] = "New chat"]
    IN  IF chat.activeSessionId = sessionId
        THEN createNewSession(without) ELSE without

\* clearAllSessions(): every session goes and a new one is opened.
clearAllSessions(chat) ==
    createNewSession([chat EXCEPT
                          !.sessions = {},
                          !.messages = [id \in SessionIds |-> 0],
                          !.titles = [id \in SessionIds |-> "New chat"]])

\* After initChat(): store.initialize() leaves one active session, and
\* nothing is being generated.
InitChat ==
    /\ NoClientCall
    /\ aborted = FALSE
    /\ core = [pc |-> "chat",
               streaming |-> FALSE,
               inFlight |-> 0,
               requestSessionId |-> 0,
               sessions |-> {1},
               activeSessionId |-> 1,
               titles |-> [id \in SessionIds |-> "New chat"],
               messages |-> [id \in SessionIds |-> 0],
               historyOpen |-> FALSE,
               op |-> "none",
               refused |-> FALSE]

\* sendMessage() without its store.isStreaming() check.
SendMessage_WithoutStreamingCheck ==
    /\ core.pc = "chat"
    /\ \E hasText \in BOOLEAN, hasKey \in BOOLEAN, hasModel \in BOOLEAN,
          prefixWithTime \in BOOLEAN :
        IF ~hasText
        THEN core' = Handled(core, "sendMessage")
        ELSE IF ~hasKey \/ ~hasModel
        THEN core' = Handled(core, "sendMessage")
        ELSE LET appended == IF prefixWithTime THEN 2 ELSE 1
             IN  /\ core.messages[core.activeSessionId] + appended
                        <= MaxMessages
                 /\ core' = Handled(
                        [core EXCEPT
                             !.messages[core.activeSessionId] = @ + appended,
                             !.streaming = TRUE,
                             !.inFlight = @ + 1,
                             !.requestSessionId = core.activeSessionId],
                        "sendMessage")
    /\ UNCHANGED <<aborted, clientVars>>

\* sendMessage(): returns on an empty input or while a response is being
\* generated, and on a missing key or model; otherwise it appends the user's
\* message (after the timestamp message, if any) and runs
\* generateAssistantResponse up to its first await: store.startStreaming()
\* and the provider's request.
SendMessage ==
    /\ core.pc = "chat"
    /\ \E hasText \in BOOLEAN, hasKey \in BOOLEAN, hasModel \in BOOLEAN,
          prefixWithTime \in BOOLEAN :
        IF ~hasText \/ isStreaming(core)
        THEN core' = [core EXCEPT !.op = "sendMessage",
                                  !.refused = isStreaming(core)]
        ELSE IF ~hasKey \/ ~hasModel
        THEN core' = Handled(core, "sendMessage")
        ELSE LET appended == IF prefixWithTime THEN 2 ELSE 1
             IN  /\ core.messages[core.activeSessionId] + appended
                        <= MaxMessages
                 /\ core' = Handled(
                        [core EXCEPT
                             !.messages[core.activeSessionId] = @ + appended,
                             !.streaming = TRUE,
                             !.inFlight = @ + 1,
                             !.requestSessionId = core.activeSessionId],
                        "sendMessage")
    /\ UNCHANGED <<aborted, clientVars>>

\* generateAssistantResponse: a segment of the response is appended to the
\* session, unless another session is the active one by now.
AppendAssistantSegment ==
    /\ core.pc = "chat"
    /\ core.inFlight > 0
    /\ core.activeSessionId = core.requestSessionId
    /\ core.messages[core.activeSessionId] < MaxMessages
    /\ core' = [core EXCEPT !.messages[core.activeSessionId] = @ + 1,
                            !.op = "generation", !.refused = FALSE]
    /\ UNCHANGED <<aborted, clientVars>>

\* generateAssistantResponse, finally: store.finishStreaming()
FinishGeneration ==
    /\ core.pc = "chat"
    /\ core.inFlight > 0
    /\ core' = [core EXCEPT !.inFlight = @ - 1, !.streaming = FALSE,
                            !.op = "generation", !.refused = FALSE]
    /\ UNCHANGED <<aborted, clientVars>>

\* The retry button of a user message: retryBlocked() in the button's
\* handler, then onRetryRequested, which rolls the session back to before
\* the turn (found = the store knows the turn).
RetryRequested ==
    /\ core.pc = "chat"
    /\ core.messages[core.activeSessionId] > 0
    /\ \E found \in BOOLEAN,
          kept \in 0..(core.messages[core.activeSessionId] - 1) :
        IF isStreaming(core)
        THEN core' = Refused(core, "retry")
        ELSE IF ~found
        THEN core' = Handled(core, "retry")
        ELSE core' = Handled(
                 [core EXCEPT !.messages[core.activeSessionId] = kept],
                 "retry")
    /\ UNCHANGED <<aborted, clientVars>>

\* elements.historyBtn, click
ToggleHistory ==
    /\ core.pc = "chat"
    /\ IF isStreaming(core)
       THEN core' = Refused(core, "toggleHistory")
       ELSE core' = Handled([core EXCEPT !.historyOpen = ~@],
                            "toggleHistory")
    /\ UNCHANGED <<aborted, clientVars>>

\* elements.newSessionBtn, click
NewSession ==
    /\ core.pc = "chat"
    /\ core.sessions # SessionIds
    /\ IF isStreaming(core)
       THEN core' = Refused(core, "createSession")
       ELSE core' = Handled(
                [createNewSession(core) EXCEPT !.historyOpen = FALSE],
                "createSession")
    /\ UNCHANGED <<aborted, clientVars>>

\* elements.clearAllBtn, click
ClearAllSessions ==
    /\ core.pc = "chat"
    /\ IF isStreaming(core)
       THEN core' = Refused(core, "clearAllSessions")
       ELSE core' = Handled(clearAllSessions(core), "clearAllSessions")
    /\ UNCHANGED <<aborted, clientVars>>

\* elements.clearBtn, click
ClearSession ==
    /\ core.pc = "chat"
    /\ core.sessions # SessionIds
    /\ IF isStreaming(core)
       THEN core' = Refused(core, "clearSession")
       ELSE core' = Handled(createNewSession(core), "clearSession")
    /\ UNCHANGED <<aborted, clientVars>>

\* A click on a session of the history list: isSessionOperationBlocked(),
\* then the session becomes the active one and the list closes.
SwitchSession ==
    /\ core.pc = "chat"
    /\ core.historyOpen
    /\ \E sessionId \in core.sessions :
        IF isStreaming(core)
        THEN core' = Refused(core, "switchSession")
        ELSE core' = Handled([core EXCEPT !.activeSessionId = sessionId,
                                          !.historyOpen = FALSE],
                             "switchSession")
    /\ UNCHANGED <<aborted, clientVars>>

\* The rename button of a session of the history list.
RenameSession ==
    /\ core.pc = "chat"
    /\ core.historyOpen
    /\ \E sessionId \in core.sessions, title \in SessionTitles :
        IF isStreaming(core)
        THEN core' = Refused(core, "renameSession")
        ELSE core' = Handled([core EXCEPT !.titles[sessionId] = title],
                             "renameSession")
    /\ UNCHANGED <<aborted, clientVars>>

\* The delete button of a session of the history list.
DeleteSession ==
    /\ core.pc = "chat"
    /\ core.historyOpen
    /\ \E sessionId \in core.sessions :
        IF isStreaming(core)
        THEN core' = Refused(core, "deleteSession")
        ELSE core' = Handled(deleteSession(core, sessionId),
                             "deleteSession")
    /\ UNCHANGED <<aborted, clientVars>>

NextChat ==
    \/ SendMessage
    \/ AppendAssistantSegment
    \/ FinishGeneration
    \/ RetryRequested
    \/ ToggleHistory
    \/ NewSession
    \/ ClearAllSessions
    \/ ClearSession
    \/ SwitchSession
    \/ RenameSession
    \/ DeleteSession

SpecChat == InitChat /\ [][NextChat]_vars

\* ------------------------------------------------ provider config profiles
CHAT_PROVIDER_IDS == {"gemini", "openai", "anthropic"}
OPENAI_REASONING_LEVELS == {"none", "minimal", "low", "medium", "high", "xhigh"}
GEMINI_SEARCH_MODES == {"", "gemini_google_search"}
OPENAI_SEARCH_MODES ==
    {"", "openai_web_search_low", "openai_web_search_medium",
     "openai_web_search_high"}

\* The strings that Number.parseInt reads as a positive integer.
PositiveIntegers == {"2048", "4096"}

\* getProviderDefaults(providerId)
getProviderDefaults(providerId) ==
    IF providerId = "openai"
    THEN [apiUrl |-> "https://api.openai.com/v1", apiKey |-> "",
          backupApiKey |-> "", model |-> "gpt-4o-mini",
          thinkingBudget |-> "null", searchMode |-> ""]
    ELSE IF providerId = "anthropic"
    THEN [apiUrl |-> "https://api.anthropic.com/v1", apiKey |-> "",
          backupApiKey |-> "", model |-> "claude-sonnet-4-5-20250929",
          thinkingBudget |-> "null", searchMode |-> ""]
    ELSE [apiUrl |-> "https://generativelanguage.googleapis.com/v1beta",
          apiKey |-> "", backupApiKey |-> "", model |-> "gemini-2.5-pro",
          thinkingBudget |-> "null", searchMode |-> ""]

\* parsePositiveInteger(rawValue); "null" stands for null, and a number is
\* written as its decimal string.
parsePositiveInteger(rawValue) ==
    IF rawValue \in PositiveIntegers THEN rawValue ELSE "null"

\* normalizeThinkingValue(provider, rawValue)
normalizeThinkingValue(providerId, rawValue) ==
    IF providerId = "openai"
    THEN IF rawValue \in OPENAI_REASONING_LEVELS THEN rawValue ELSE "null"
    ELSE parsePositiveInteger(rawValue)

\* A variant that knows the search mode of Anthropic.
normalizeSearchMode_WithAnthropic(providerId, rawValue) ==
    IF providerId = "openai"
    THEN IF rawValue \in OPENAI_SEARCH_MODES THEN rawValue ELSE ""
    ELSE IF providerId = "anthropic"
    THEN IF rawValue \in {"", "anthropic_web_search"} THEN rawValue ELSE ""
    ELSE IF rawValue \in GEMINI_SEARCH_MODES THEN rawValue ELSE ""

\* normalizeSearchMode(provider, rawValue)
normalizeSearchMode(providerId, rawValue) ==
    IF providerId = "openai"
    THEN IF rawValue \in OPENAI_SEARCH_MODES THEN rawValue ELSE ""
    ELSE IF rawValue \in GEMINI_SEARCH_MODES THEN rawValue ELSE ""

\* normalizeProviderProfile(provider, rawProfile, fallbackProfile) of a raw
\* profile whose fields are strings without white space around them.
normalizeProviderProfile(providerId, rawProfile, fallbackProfile) ==
    [apiUrl |-> IF rawProfile.apiUrl # "" THEN rawProfile.apiUrl
                ELSE fallbackProfile.apiUrl,
     apiKey |-> rawProfile.apiKey,
     backupApiKey |-> rawProfile.backupApiKey,
     model |-> rawProfile.model,
     thinkingBudget |->
         normalizeThinkingValue(providerId, rawProfile.thinkingBudget),
     searchMode |-> normalizeSearchMode(providerId, rawProfile.searchMode)]

\* createDefaultProfiles()
createDefaultProfiles ==
    [providerId \in CHAT_PROVIDER_IDS |->
        normalizeProviderProfile(providerId, getProviderDefaults(providerId),
                                 getProviderDefaults(providerId))]

\* formatThinkingValue(provider, thinkingValue)
formatThinkingValue(providerId, thinkingValue) ==
    IF providerId = "openai"
    THEN IF thinkingValue # "null" THEN thinkingValue ELSE ""
    ELSE IF thinkingValue \in PositiveIntegers THEN thinkingValue ELSE ""

\* readProviderFields(provider): the profile the fields of the form give.
readProviderFields(form, profiles, providerId) ==
    normalizeProviderProfile(
        providerId,
        [apiUrl |-> form.cfgUrl, apiKey |-> form.cfgKey,
         backupApiKey |-> form.cfgBackupKey, model |-> form.cfgModel,
         thinkingBudget |->
             normalizeThinkingValue(providerId, form.cfgThinkingBudget),
         searchMode |-> normalizeSearchMode(providerId, form.cfgSearchMode)],
        profiles[providerId])

\* applyProviderProfile(provider, profile): the fields of the form after it.
applyProviderProfile(providerId, profile) ==
    [cfgUrl |-> profile.apiUrl, cfgKey |-> profile.apiKey,
     cfgBackupKey |-> profile.backupApiKey, cfgModel |-> profile.model,
     cfgThinkingBudget |->
         formatThinkingValue(providerId, profile.thinkingBudget),
     cfgSearchMode |-> profile.searchMode]

\* What a user types into the fields of the form.
FormEntries ==
    {[cfgUrl |-> "https://a.example/v1", cfgKey |-> "key-1",
      cfgBackupKey |-> "", cfgModel |-> "model-1",
      cfgThinkingBudget |-> "2048", cfgSearchMode |-> "gemini_google_search"],
     [cfgUrl |-> "https://b.example/v1", cfgKey |-> "key-2",
      cfgBackupKey |-> "backup-2", cfgModel |-> "model-2",
      cfgThinkingBudget |-> "medium",
      cfgSearchMode |-> "openai_web_search_high"],
     [cfgUrl |-> "https://c.example/v1", cfgKey |-> "key-3",
      cfgBackupKey |-> "", cfgModel |-> "model-3",
      cfgThinkingBudget |-> "4096", cfgSearchMode |-> "anthropic_web_search"],
     [cfgUrl |-> "", cfgKey |-> "", cfgBackupKey |-> "", cfgModel |-> "",
      cfgThinkingBudget |-> "", cfgSearchMode |-> ""]}

NoForm ==
    [cfgUrl |-> "(none)", cfgKey |-> "", cfgBackupKey |-> "", cfgModel |-> "",
     cfgThinkingBudget |-> "", cfgSearchMode |-> ""]

\* After createConfigManager and loadConfig() with nothing stored: the
\* default profiles, and the fields of the default provider in the form.
\* leftForm keeps the fields of each provider as they were when the form
\* switched away from it.
InitConfigManager ==
    /\ NoClientCall
    /\ aborted = FALSE
    /\ core = [pc |-> "config",
               activeProvider |-> "gemini",
               profiles |-> createDefaultProfiles,
               form |-> applyProviderProfile("gemini",
                                             createDefaultProfiles["gemini"]),
               leftForm |-> [providerId \in CHAT_PROVIDER_IDS |-> NoForm],
               profilesBefore |-> createDefaultProfiles,
               op |-> "loadConfig"]

\* The user edits the fields of the form.
EditFields ==
    /\ core.pc = "config"
    /\ \E entry \in FormEntries :
           core' = [core EXCEPT !.form = entry, !.op = "edit",
                                !.profilesBefore = core.profiles]
    /\ UNCHANGED <<aborted, clientVars>>

\* switchProvider(nextProviderRaw), on the change event of cfgProvider.
SwitchProvider ==
    /\ core.pc = "config"
    /\ \E nextProvider \in CHAT_PROVIDER_IDS :
        IF nextProvider = core.activeProvider
        THEN core' = [core EXCEPT !.op = "none",
                                  !.profilesBefore = core.profiles]
        ELSE LET profiles ==
                     [core.profiles EXCEPT
                          ![core.activeProvider] =
                              readProviderFields(core.form, core.profiles,
                                                 core.activeProvider)]
             IN  core' = [core EXCEPT
                              !.profiles = profiles,
                              !.activeProvider = nextProvider,
                              !.form = applyProviderProfile(
                                           nextProvider,
                                           profiles[nextProvider]),
                              !.leftForm[core.activeProvider] = core.form,
                              !.profilesBefore = core.profiles,
                              !.op = "switch"]
    /\ UNCHANGED <<aborted, clientVars>>

NextConfigManager ==
    \/ EditFields
    \/ SwitchProvider

SpecConfigManager == InitConfigManager /\ [][NextConfigManager]_vars

\* ------------------------------------------ a text streamed to the splitter
\* Before a splitter is created for a stream of deltas; pushed is the text
\* pushed so far and emitted the segments returned so far, in order.
InitSplitStream ==
    /\ NoClientCall
    /\ aborted = FALSE
    /\ \E markers \in MarkerLists :
           core = [pc |-> "idle", markers |-> markers, activeMarkers |-> <<>>,
                   buffer |-> <<>>, pushed |-> <<>>, deltas |-> 0,
                   emitted |-> <<>>]

\* createMarkerStreamSplitter({ markers })
CreateStreamSplitter ==
    /\ core.pc = "idle"
    /\ LET activeMarkers == normalizeMarkers(core.markers)
       IN  core' = [core EXCEPT
                        !.pc = IF activeMarkers = <<>> THEN "thrown"
                               ELSE "streaming",
                        !.activeMarkers = activeMarkers]
    /\ UNCHANGED <<aborted, clientVars>>

\* push(event.text) for a delta of the stream, the segments it returns being
\* appended in order.
PushDelta ==
    /\ core.pc = "streaming"
    /\ \E textDelta \in SplitterTexts(MaxDeltaLen) \ {<<>>} :
           /\ Len(core.pushed) + Len(textDelta) <= MaxBufferLen
           /\ LET split == SplitBuffer(core.buffer \o textDelta,
                                       core.activeMarkers)
              IN  core' = [core EXCEPT
                               !.pushed = @ \o textDelta,
                               !.deltas = @ + 1,
                               !.emitted = @ \o split.segments,
                               !.buffer = split.buffer]
    /\ UNCHANGED <<aborted, clientVars>>

\* flush() at the end of the stream, its segment appended when not empty.
FlushStream ==
    /\ core.pc = "streaming"
    /\ LET remaining == trim(core.buffer)
       IN  core' = [core EXCEPT
                        !.pc = "flushed",
                        !.emitted = @ \o (IF remaining # <<>>
                                          THEN <<remaining>> ELSE <<>>),
                        !.buffer = <<>>]
    /\ UNCHANGED <<aborted, clientVars>>

NextSplitStream ==
    \/ CreateStreamSplitter
    \/ PushDelta
    \/ FlushStream

SpecSplitStream == InitSplitStream /\ [][NextSplitStream]_vars

\* --------------------------------------- a Gemini stream of incremental chunks
\* The Gemini generateStream loop over payloads that are incremental chunks:
\* payloadText is the concatenation of the payload texts so far, emittedText
\* that of the text-delta events.
InitChunkStream ==
    /\ NoClientCall
    /\ aborted = FALSE
    /\ core = [pc |-> "await", assembledText |-> <<>>, payloadText |-> <<>>,
               emittedText |-> <<>>, nextText |-> <<>>, deltaText |-> <<>>,
               chunks |-> 0]

\* const deltaResult = resolveStreamDelta(streamText, assembledText);
\* assembledText = deltaResult.mergedText;
\* if (deltaResult.deltaText) yield { type: 'text-delta', text: deltaText }
NextChunk ==
    /\ core.pc \in {"await", "resolved"}
    /\ \E streamText \in Strings(MaxPayloadLen) \ {<<>>} :
           LET deltaResult == resolveStreamDelta(streamText, core.assembledText)
           IN  /\ Len(core.payloadText) + Len(streamText) <= MaxAssembledLen
               /\ core' = [pc |-> "resolved",
                           assembledText |-> deltaResult.mergedText,
                           payloadText |-> core.payloadText \o streamText,
                           emittedText |->
                               core.emittedText \o deltaResult.deltaText,
                           nextText |-> streamText,
                           deltaText |-> deltaResult.deltaText,
                           chunks |-> core.chunks + 1]
    /\ UNCHANGED <<clientVars, aborted>>

SpecChunkStream == InitChunkStream /\ [][NextChunk]_vars

\* ------------------------------------------- generateAssistantResponse (api.js)
\* One run of generateAssistantResponse, cut at its awaits.  core holds the
\* closure's variables (timeoutCleared, streamState, the timer), the store's
\* streaming flag and abort reason, and what the run has shown and persisted.
MaxSegments == 2

RunningPcs == {"stream", "batch", "render"}

\* Assistant messages of the current turn, each tagged with the request that
\* produced it ("stream", "batch" or "fallback") and its place in that answer.
Segment(origin, index) == [origin |-> origin, index |-> index]

\* session store: startStreaming(abortController) takes the generation slot.
startStreaming(c) == [c EXCEPT !.streaming = TRUE, !.signalAborted = FALSE]

\* session store: finishStreaming() releases the slot.
finishStreaming(c) == [c EXCEPT !.streaming = FALSE, !.finishStreamingCalls = @ + 1]

\* session store: requestAbort(reason) records the reason and aborts the
\* controller of the running generation; nothing to abort when idle.
requestAbort(c, reason) ==
    IF c.streaming
    THEN [c EXCEPT !.abortReason = reason, !.signalAborted = TRUE,
                   !.abortedAfterFirstData = c.firstData]
    ELSE c

\* clearTimeout(timeoutId): a pending timer is cancelled, a fired one stays fired.
clearTimeout(timer) == IF timer = "pending" THEN "cancelled" ELSE timer

clearConnectionTimeout_WithoutClearTimeout(c) ==
    IF c.timeoutCleared THEN c ELSE [c EXCEPT !.timeoutCleared = TRUE]

\* const clearConnectionTimeout = () => { if (timeoutCleared) return;
\*     clearTimeout(timeoutId); timeoutCleared = true; }
clearConnectionTimeout(c) ==
    IF c.timeoutCleared THEN c
    ELSE [c EXCEPT !.timer = clearTimeout(@), !.timeoutCleared = TRUE]

Finally_WithoutFinishStreaming(c) ==
    [c EXCEPT !.timer = IF ~c.timeoutCleared THEN clearTimeout(@) ELSE @,
              !.setStreamingUICalls = @ + 1,
              !.pc = "ended"]

\* finally { if (!timeoutCleared) clearTimeout(timeoutId);
\*           store.finishStreaming(); ui.setStreamingUI(false); }
Finally(c) ==
    [finishStreaming(c) EXCEPT
         !.timer = IF ~c.timeoutCleared THEN clearTimeout(@) ELSE @,
         !.setStreamingUICalls = @ + 1,
         !.pc = "ended"]

\* appendAssistantSegmentImmediate for n further segments of one request.
RECURSIVE AppendSegments(_, _, _)
AppendSegments(messages, origin, n) ==
    IF n = 0 THEN messages
    ELSE AppendSegments(messages, origin, n - 1)
             \o <<Segment(origin, Len(SelectSeq(messages,
                      LAMBDA m : m.origin = origin)) + n)>>

\* Lines 392-409: what the catch block reports for the error it ends with.
ReportError(c, errorName) ==
    IF errorName = "AbortError"
    THEN IF c.abortReason = "connect_timeout"
         THEN [c EXCEPT !.report = "Connection timeout"]
         ELSE IF c.abortReason = "user"
              THEN IF c.shouldUseStreaming
                   THEN [c EXCEPT !.buffer = 0,
                                  !.report = "Generation stopped, partial discarded"]
                   ELSE [c EXCEPT !.report = "Generation stopped"]
              ELSE c
    ELSE [c EXCEPT !.report = "Request failed"]

InitGeneration ==
    /\ NoClientCall
    /\ aborted = FALSE
    /\ core = [pc |-> "idle", shouldUseStreaming |-> FALSE, inFallback |-> FALSE,
               timer |-> "none", timeoutCleared |-> FALSE,
               abortReason |-> "", signalAborted |-> FALSE, streaming |-> FALSE,
               sessionChanged |-> FALSE, buffer |-> 0,
               persistedSegmentCount |-> 0, pendingSegments |-> 0,
               messages |-> <<>>, firstData |-> FALSE, report |-> "",
               finishStreamingCalls |-> 0, setStreamingUICalls |-> 0,
               abortedAfterFirstData |-> FALSE, firedAfterFirstData |-> FALSE,
               firedAfterEnd |-> FALSE, fallback |-> "none"]

\* Lines 228-369 up to the first await: the slot is taken, the connect-timeout
\* timer armed and the streaming or the batch request issued.
StartGeneration ==
    /\ core.pc \in {"idle", "ended"}
    /\ \E enablePseudoStream \in BOOLEAN :
           core' = [startStreaming(core) EXCEPT
                        !.pc = IF enablePseudoStream THEN "stream" ELSE "batch",
                        !.shouldUseStreaming = enablePseudoStream,
                        !.inFallback = FALSE,
                        !.timer = "pending", !.timeoutCleared = FALSE,
                        !.sessionChanged = FALSE, !.buffer = 0,
                        !.persistedSegmentCount = 0, !.pendingSegments = 0,
                        !.messages = <<>>, !.firstData = FALSE, !.report = "",
                        !.finishStreamingCalls = 0, !.setStreamingUICalls = 0,
                        !.abortedAfterFirstData = FALSE,
                        !.firedAfterFirstData = FALSE,
                        !.firedAfterEnd = FALSE, !.fallback = "none"]
    /\ UNCHANGED <<clientVars, aborted>>

\* Lines 326-346, one event of the stream: a session change ends the run,
\* anything but a non-empty text-delta is skipped, a text-delta cancels the
\* timer and goes to the splitter; each completed non-blank segment is
\* persisted.  kind says whether the delta carries text, a marker, or both.
StreamEvent ==
    /\ core.pc = "stream"
    /\ ~core.signalAborted
    /\ \E kind \in {"other", "text", "text+marker", "marker"} :
           IF core.sessionChanged
           THEN core' = Finally(core)
           ELSE IF kind = "other"
           THEN core' = core
           ELSE LET c1 == [clearConnectionTimeout(core)
                               EXCEPT !.firstData = TRUE]
                    completes == kind = "text+marker"
                                 \/ (kind = "marker" /\ core.buffer = 1)
                IN  /\ completes => core.persistedSegmentCount < MaxSegments
                    /\ core' =
                         IF completes
                         THEN [c1 EXCEPT
                                   !.buffer = 0,
                                   !.messages = AppendSegments(@, "stream", 1),
                                   !.persistedSegmentCount = @ + 1]
                         ELSE [c1 EXCEPT
                                   !.buffer = IF kind = "text" THEN 1 ELSE @]
    /\ UNCHANGED <<clientVars, aborted>>

\* Lines 349-358 and the finally: the stream ended, the timer is cancelled and
\* the flushed remainder, if not blank, persisted.
FinishStreamedResponse ==
    /\ core.pc = "stream"
    /\ ~core.signalAborted
    /\ core.buffer = 1 => core.persistedSegmentCount < MaxSegments
    /\ LET c1 == clearConnectionTimeout(core)
           c2 == IF core.buffer = 1
                 THEN [c1 EXCEPT !.buffer = 0,
                                 !.messages = AppendSegments(@, "stream", 1),
                                 !.persistedSegmentCount = @ + 1]
                 ELSE c1
       IN  core' = Finally(c2)
    /\ UNCHANGED <<clientVars, aborted>>

StreamFails_WithoutPersistedCheck ==
    /\ core.pc = "stream"
    /\ \E errorName \in {"Error", "AbortError"} :
           /\ (errorName = "AbortError") <=> core.signalAborted
           /\ IF core.sessionChanged
              THEN core' = Finally(core)
              ELSE IF core.shouldUseStreaming /\ errorName # "AbortError"
              THEN core' = [core EXCEPT
                                !.buffer = 0, !.pc = "batch",
                                !.inFallback = TRUE,
                                !.fallback = IF core.persistedSegmentCount = 0
                                             THEN "first" ELSE "after segments"]
              ELSE core' = Finally(ReportError(core, errorName))
    /\ UNCHANGED <<clientVars, aborted>>

\* Lines 370-409 for an error of the stream: a changed session ends the run;
\* a non-cancellation error with nothing persisted discards the buffered text
\* and issues the batch request; any other error is reported.
StreamFails ==
    /\ core.pc = "stream"
    /\ \E errorName \in {"Error", "AbortError"} :
           /\ (errorName = "AbortError") <=> core.signalAborted
           /\ IF core.sessionChanged
              THEN core' = Finally(core)
              ELSE IF core.shouldUseStreaming
                      /\ core.persistedSegmentCount = 0
                      /\ errorName # "AbortError"
              THEN core' = [core EXCEPT
                                !.buffer = 0, !.pc = "batch",
                                !.inFallback = TRUE,
                                !.fallback = IF core.persistedSegmentCount = 0
                                             THEN "first" ELSE "after segments"]
              ELSE core' = Finally(ReportError(core, errorName))
    /\ UNCHANGED <<clientVars, aborted>>

\* Lines 271-289: the batch response arrived.  A changed session ends the run;
\* otherwise the timer is cancelled and the segments are rendered: at once
\* without pseudo-streaming (lines 167-180, 218-220, 298-301), else one by one.
BatchResponse ==
    /\ core.pc = "batch"
    /\ ~core.signalAborted
    /\ \E n \in 0..MaxSegments :
           IF core.sessionChanged
           THEN core' = Finally(core)
           ELSE LET c1 == [clearConnectionTimeout(core)
                               EXCEPT !.firstData = TRUE]
                IN  IF core.shouldUseStreaming
                    THEN core' = [c1 EXCEPT !.pc = "render",
                                            !.pendingSegments = n]
                    ELSE core' = Finally([c1 EXCEPT
                             !.messages = AppendSegments(@, "batch", n)])
    /\ UNCHANGED <<clientVars, aborted>>

\* Lines 370-409 for an error of the batch request (387-389 when it is the
\* fallback request: the fallback's error is the one reported).
BatchFails ==
    /\ core.pc = "batch"
    /\ \E errorName \in {"Error", "AbortError"} :
           /\ (errorName = "AbortError") <=> core.signalAborted
           /\ IF ~core.inFallback /\ core.sessionChanged
              THEN core' = Finally(core)
              ELSE core' = Finally(ReportError(core, errorName))
    /\ UNCHANGED <<clientVars, aborted>>

\* renderAssistantSegments with pseudo-streaming (lines 182-216, 298-305): the
\* segments are typed out one after another; a stop interrupts the rendering
\* and what was typed is kept.
RenderSegments ==
    /\ core.pc = "render"
    /\ \E rendered \in 0..core.pendingSegments :
           /\ ~core.signalAborted => rendered = core.pendingSegments
           /\ core' = Finally([core EXCEPT
                  !.messages = AppendSegments(@,
                      IF core.inFallback THEN "fallback" ELSE "batch", rendered),
                  !.pendingSegments = 0])
    /\ UNCHANGED <<clientVars, aborted>>

\* setTimeout(() => { if (!store.isStreaming()) return;
\*     store.setAbortReason('connect_timeout'); abortController.abort(); })
ConnectTimeoutFires ==
    /\ core.timer = "pending"
    /\ core' = IF ~core.streaming
               THEN [core EXCEPT !.timer = "fired", !.firedAfterEnd = TRUE]
               ELSE [core EXCEPT !.timer = "fired",
                                 !.abortReason = "connect_timeout",
                                 !.signalAborted = TRUE,
                                 !.firedAfterFirstData = core.firstData]
    /\ UNCHANGED <<clientVars, aborted>>

\* function stopGeneration() { store.requestAbort('user'); }
stopGeneration ==
    /\ core.pc \in RunningPcs \cup {"ended"}
    /\ ~core.signalAborted
    /\ core.streaming
    /\ core' = requestAbort(core, "user")
    /\ UNCHANGED <<clientVars, aborted>>

\* store.getActiveSessionId() !== requestSessionId from now on.
ActiveSessionChanges ==
    /\ core.pc \in RunningPcs
    /\ ~core.sessionChanged
    /\ core' = [core EXCEPT !.sessionChanged = TRUE]
    /\ UNCHANGED <<clientVars, aborted>>

NextGeneration ==
    \/ StartGeneration
    \/ StreamEvent
    \/ FinishStreamedResponse
    \/ StreamFails
    \/ BatchResponse
    \/ BatchFails
    \/ RenderSegments
    \/ ConnectTimeoutFires
    \/ stopGeneration
    \/ ActiveSessionChanges

SpecGeneration == InitGeneration /\ [][NextGeneration]_vars

\* Every awaited request, stream read and rendering settles.
SpecGenerationFair ==
    /\ SpecGeneration
    /\ WF_vars(FinishStreamedResponse \/ StreamFails)
    /\ WF_vars(BatchResponse \/ BatchFails)
    /\ WF_vars(RenderSegments)

\* --------------------------------- truncateContentToTokenBudget on its own
MaxRuns == 3
MaxRunCount == 2
MaxTokenBudget == 7

\* The texts of up to MaxRuns runs of up to MaxRunCount characters each.
ShortTexts ==
    UNION {{text \in [1..n -> [class : {"x", "s", "c", "w"},
                               count : 1..MaxRunCount]] :
               \A i \in 1..(n - 1) : text[i].class # text[i + 1].class} :
           n \in 0..MaxRuns}

InitTruncate ==
    /\ NoClientCall
    /\ aborted = FALSE
    /\ \E content \in ShortTexts, maxTokens \in 0..MaxTokenBudget :
           core = [pc |-> "idle", content |-> content,
                   maxTokens |-> maxTokens, truncated |-> <<>>]

\* truncateContentToTokenBudget(content, maxTokens) is called.
CallTruncate ==
    /\ core.pc = "idle"
    /\ core' = [core EXCEPT
                    !.pc = "returned",
                    !.truncated = truncateContentToTokenBudget(core.content,
                                                               core.maxTokens)]
    /\ UNCHANGED <<aborted, clientVars>>

SpecTruncate == InitTruncate /\ [][CallTruncate]_vars

\* ================================================================ claims
Keys == {"primary", "backup"}

EventIndexes(type) == {i \in DOMAIN run.events : run.events[i].type = type}

NoFetchCalls == [k \in Keys |-> 0]

C2_AbortPropagatesAtOnce ==
    run.abortRaised \in {"request", "wait", "body", "reader"} =>
        /\ run.pc = "thrown"
        /\ run.thrown.name = "AbortError"
        /\ Effects(run) = run.atAbort

\* A retry wait was cancelled after a request and a retry notice.
C2_Witness ==
    /\ run.abortRaised = "wait"
    /\ run.pc = "thrown"
    /\ Len(run.retryNotices) = 1
    /\ run.fetchCalls["primary"] = 1
    /\ config.backupApiKey

\* C3: in generateStream() the backup key is in use only after the primary
\* attempt failed and a fallback-key event was emitted; there is at most one
\* fallback-key event and no text-delta event precedes it, so a failure after
\* a delta never falls back.
C3_StreamFallbackOnlyBeforeDelta ==
    mode = "generateStream" =>
        /\ Cardinality(EventIndexes("fallback-key")) <= 1
        /\ \A i \in EventIndexes("fallback-key") :
               \A j \in EventIndexes("text-delta") : i < j
        /\ (run.keyIndex = 1 \/ (run.fetchCalls["backup"] > 0 /\ config.apiKey))
               => /\ EventIndexes("fallback-key") # {}
                  /\ run.fallbackNotices = 1
                  /\ run.lastError # NoError
        /\ EventIndexes("fallback-key") # {} => run.keyIndex = 1

\* The backup attempt streams text after the fallback-key event.
C3_Witness ==
    /\ mode = "generateStream"
    /\ Len(run.events) >= 2
    /\ run.events[1].type = "fallback-key"
    /\ run.events[2].type = "text-delta"

\* C4: under one key fetchWithRetry issues at most maxRetries + 1 requests; a
\* retryable status received on the last allowed attempt is handed back as the
\* response (generate sees it as that HTTP error); a network error is thrown
\* out of fetchWithRetry only by the last allowed attempt; a call issues at
\* most 2 * (maxRetries + 1) requests.
C4_RetryBudgetPerKey ==
    /\ \A k \in Keys : run.fetchCalls[k] <= maxRetries + 1
    /\ run.fetchCalls["primary"] + run.fetchCalls["backup"] <= 2 * (maxRetries + 1)
    /\ Len(run.retryNotices) <= 2 * maxRetries
    /\ \A k \in Keys :
           (/\ run.lastOutcome.name = "Response"
            /\ run.lastOutcome.key = k
            /\ shouldRetryStatus(run.lastOutcome.status)
            /\ run.fetchCalls[k] = maxRetries + 1
            /\ ~(run.pc = "fetch" /\ KeyOf(run) = k)
            /\ run.abortRaised \notin {"request", "wait"})
               => \/ run.pc = "errBody" /\ run.status = run.lastOutcome.status
                  \/ run.lastError = Err("HttpError", run.lastOutcome.status, k)
    /\ (run.lastError.name = "NetworkError")
           => run.fetchCalls[run.lastError.key] = maxRetries + 1

\* The last allowed attempt of a key got a retryable status, which is handed
\* to the caller of fetchWithRetry.
C4_Witness ==
    /\ maxRetries > 0
    /\ run.pc = "errBody"
    /\ run.status = 503
    /\ run.fetchCalls["primary"] = maxRetries + 1
    /\ Len(run.retryNotices) = maxRetries

RetryableStatus(statusCode) ==
    statusCode \in {408, 429} \/ (statusCode >= 500 /\ statusCode <= 599)

\* C5: a response whose status is none of 408, 429 and 5xx is never retried:
\* the step that receives it issues no further request with that key, fires
\* no retry notice and starts no wait.
C5_RetryOnlyRetryableStatuses ==
    [][(/\ run.pc = "fetch"
        /\ run' # run
        /\ run'.lastOutcome.name = "Response"
        /\ run'.lastOutcome.key = KeyOf(run)
        /\ ~RetryableStatus(run'.lastOutcome.status))
           => /\ run'.fetchCalls[KeyOf(run)] = run.fetchCalls[KeyOf(run)]
              /\ run'.retryNotices = run.retryNotices
              /\ run'.pc # "wait"]_vars

\* A 403 is handed back after a single request although retries are allowed.
C5_Witness ==
    /\ maxRetries > 0
    /\ run.pc = "errBody"
    /\ run.status = 403
    /\ run.fetchCalls["primary"] = 1
    /\ run.retryNotices = <<>>

WaitStarts == Len(run'.retryNotices) > Len(run.retryNotices)

StartedDelayMs == run'.retryNotices[Len(run'.retryNotices)].delayMs

AbortThrownWithoutRequest ==
    /\ run'.pc = "thrown"
    /\ run'.thrown.name = "AbortError"
    /\ run'.fetchCalls = run.fetchCalls

\* C6 as stated: whatever the delay, a retry wait that starts with the signal
\* aborted, or whose signal is aborted while it is pending, rejects with
\* AbortError and no further request is issued.
C6_WaitCancellableForAnyDelay ==
    [][/\ (aborted /\ WaitStarts) => AbortThrownWithoutRequest
       /\ (run.pc = "wait" /\ ~aborted /\ aborted') => AbortThrownWithoutRequest]_vars

\* C6 amended: the same for a wait whose delay is positive.
C6_WaitCancellableForPositiveDelay ==
    [][/\ (aborted /\ WaitStarts /\ StartedDelayMs > 0) => AbortThrownWithoutRequest
       /\ (run.pc = "wait" /\ ~aborted /\ aborted') => AbortThrownWithoutRequest]_vars

\* A wait with a positive delay started with the signal already aborted.
C6_Witness ==
    /\ run.abortRaised = "wait"
    /\ run.pc = "thrown"
    /\ run.retryNotices # <<>>
    /\ run.retryNotices[Len(run.retryNotices)].delayMs > 0
    /\ run.atAbort.retryNotices = run.retryNotices

ConfigurationError ==
    \/ ~config.apiUrl
    \/ ~config.model
    \/ ~(config.apiKey \/ config.backupApiKey)
    \/ ~config.imagesSupported

C8_LastAttemptErrorReported ==
    (run.pc = "thrown" /\ run.thrown.name # "AbortError" /\ run.keyIndex = 1) =>
        /\ run.thrown.key = "backup"
        /\ run.thrown = run.lastError
        /\ run.thrown.name = "HttpError"
               => run.lastOutcome = Err("Response", run.thrown.status, "backup")
        /\ (run.lastOutcome.key = "backup" /\ run.lastOutcome.name # "Response")
               => run.thrown.name = run.lastOutcome.name
        /\ (run.lastOutcome.key = "backup" /\ run.lastOutcome.name = "Response"
            /\ ~ResponseOk(run.lastOutcome.status))
               => run.thrown = Err("HttpError", run.lastOutcome.status, "backup")

\* Both keys failed after retries, the backup key with a 401.
C8_Witness ==
    /\ run.pc = "thrown"
    /\ run.keyIndex = 1
    /\ run.fallbackNotices = 1
    /\ run.fetchCalls["primary"] > 1
    /\ run.thrown = Err("HttpError", 401, "backup")

\* C9: a generateStream() that completed normally has emitted exactly one
\* done event, as its last event; a run that has not completed, or ended with
\* an error or a cancellation, has emitted none.
C9_ExactlyOneDoneLast ==
    mode = "generateStream" =>
        IF run.pc = "returned"
        THEN EventIndexes("done") = {Len(run.events)}
        ELSE EventIndexes("done") = {}

\* A stream completed after a fallback and a text delta.
C9_Witness ==
    /\ mode = "generateStream"
    /\ run.pc = "returned"
    /\ Len(run.events) = 3
    /\ run.events[2].type = "text-delta"

\* C10: in the SSE reader of every provider no record that follows a [DONE]
\* record is parsed.
C10_NothingParsedAfterDone ==
    run.parsedAfterDone = 0

\* C11: in generate(), an OK response whose body is empty, is not JSON or
\* lacks the text fields makes the call return the empty text under the key
\* that received it: nothing is thrown and the backup key is not switched to.
C11_GarbledBatchBodyGivesEmptyText ==
    (mode = "generate"
     /\ run.lastOutcome.name \in {"SyntaxError", "JsonWithoutText"}) =>
        /\ run.pc = "returned"
        /\ run.resultText = <<>>
        /\ KeyOf(run) = run.lastOutcome.key

TextDeltas(events) == SelectSeq(events, LAMBDA ev : ev.type = "text-delta")

\* The lines of a stream without its records whose payload does not parse.
RECURSIVE WithoutMalformed(_)
WithoutMalformed(lines) ==
    LET i == DelimiterIndex(lines)
    IN  IF i = 0
        THEN IF extractSseDataPayload(lines).kind = "bad" THEN <<>> ELSE lines
        ELSE (IF extractSseDataPayload(SubSeq(lines, 1, i - 1)).kind = "bad"
              THEN <<>> ELSE SubSeq(lines, 1, i))
             \o WithoutMalformed(SubSeq(lines, i + 1, Len(lines)))

\* The byte stream closed before the reader returned at a [DONE] record.
StreamClosed ==
    run.pc = "returned" /\ ~(run.doneSeen /\ ReturnsAtDone(provider))

\* The reader fed the given lines in a single read.
ReadAtOnce(lines) ==
    LET d == DrainBuffer([InitRun EXCEPT !.buffer = lines])
    IN  IF d.returned \/ ~StreamClosed THEN d.s ELSE DrainResidual(d.s)

\* C12: a streaming record whose payload does not parse is skipped: the
\* text-delta events of a stream are, in order, those of the same stream
\* without its malformed records, and no parse error is thrown.
C12_MalformedRecordsAreSkipped ==
    run.keepsReceived =>
        /\ TextDeltas(run.events)
               = TextDeltas(ReadAtOnce(WithoutMalformed(run.received)).events)
        /\ run.thrown.name # "SyntaxError"

\* A malformed record was followed by a well-formed one, whose delta is out.
C12_Witness ==
    /\ run.received = <<Line("bad", <<>>), SepLine, Line("json", <<"a">>), SepLine>>
    /\ TextDeltas(run.events) = <<Event("text-delta", <<"a">>)>>

PrefixOf(p, t) == \E n \in 0..Len(t) : SubSeq(t, 1, n) = p

SuffixOf(p, t) == \E n \in 0..Len(t) : SubSeq(t, n + 1, Len(t)) = p

\* C13: with A the text assembled so far and S the text of the next Gemini
\* payload: when A is a proper prefix of S the delta is the part of S after A
\* and A becomes S; when S is a prefix or a suffix of A nothing is emitted and
\* A is unchanged; otherwise S is emitted whole and appended to A.
C13_GeminiDeltaBySnapshotDiff ==
    core.pc = "resolved" =>
        LET A == core.before
            S == core.nextText
        IN  IF PrefixOf(A, S) /\ A # S
            THEN /\ A \o core.deltaText = S
                 /\ core.assembledText = S
            ELSE IF PrefixOf(S, A) \/ SuffixOf(S, A)
            THEN /\ core.deltaText = <<>>
                 /\ core.assembledText = A
            ELSE /\ core.deltaText = S
                 /\ core.assembledText = A \o S

\* A payload that is a suffix, and no prefix, of the assembled text.
C13_Witness ==
    /\ core.pc = "resolved"
    /\ core.before = <<"a", "b">>
    /\ core.nextText = <<"b">>
    /\ core.deltaText = <<>>
    /\ core.assembledText = <<"a", "b">>

Pow2(n) == 2 ^ n

\* C14: every retry notice carries (a + 1, maxRetries, d) for a failed attempt
\* a < maxRetries of its key, with d = min(1000 * 2^a, maxRetryDelayMs); the
\* notices of a key number its failed attempts one by one; while the wait
\* that follows a notice is pending the next request is not issued, and a
\* request in flight as attempt a was preceded by the notice numbered a.
C14_RetryNoticeBeforeEachWait ==
    LET notices == run.retryNotices
        last == notices[Len(notices)]
    IN  /\ \A i \in DOMAIN notices :
               /\ notices[i].maxRetries = maxRetries
               /\ notices[i].attempt \in 1..maxRetries
               /\ notices[i].delayMs =
                      (IF 1000 * Pow2(notices[i].attempt - 1) <= maxRetryDelayMs
                       THEN 1000 * Pow2(notices[i].attempt - 1)
                       ELSE maxRetryDelayMs)
               /\ IF i = 1 THEN notices[i].attempt = 1
                  ELSE notices[i].attempt \in {1, notices[i - 1].attempt + 1}
        /\ run.pc \in {"fetch", "wait"} =>
               run.fetchCalls[KeyOf(run)] = run.attempt + 1
        /\ run.pc = "wait" =>
               (notices # <<>> /\ last.attempt = run.attempt + 1)
        /\ (run.pc = "fetch" /\ run.attempt > 0) =>
               (notices # <<>> /\ last.attempt = run.attempt)
        /\ \A k \in Keys : run.fetchCalls[k] <= 1 + Len(notices)

\* The second failed attempt of a key: its notice carries the capped delay
\* and its wait is pending.
C14_Witness ==
    /\ run.pc = "wait"
    /\ run.attempt = 1
    /\ Len(run.retryNotices) = 2
    /\ run.retryNotices[1].delayMs = 1000
    /\ run.retryNotices[2] = [attempt |-> 2, maxRetries |-> maxRetries,
                              delayMs |-> 1500]
    /\ run.fetchCalls[KeyOf(run)] = 2

\* The first k chunks of a chunk list, joined.
RECURSIVE JoinFirst(_, _)
JoinFirst(chunks, k) ==
    IF k = 0 THEN <<>> ELSE JoinFirst(chunks, k - 1) \o chunks[k]

PseudoStreamRuns == core.pc \in {"loop", "wait", "returned"}

\* C15: when runPseudoStream has returned interrupted = true after at least
\* one chunk was rendered, the returned renderedText is a non-empty strict
\* prefix of the input text.
C15_InterruptedTextIsStrictPrefix ==
    (core.pc = "returned" /\ core.result.interrupted /\ core.calls >= 1) =>
        /\ core.result.renderedText # <<>>
        /\ PrefixOf(core.result.renderedText, core.text)
        /\ core.result.renderedText # core.text

\* C16: renderedText, in the run, in every onProgress call and in the result,
\* is the first k chunks joined for some k, hence a prefix of the text; each
\* onProgress call extends the text of the previous call by the next chunk.
C16_RenderedTextIsWholeChunks ==
    PseudoStreamRuns =>
        /\ core.renderedText = JoinFirst(core.chunks, core.calls)
        /\ core.calls <= Len(core.chunks)
        /\ PrefixOf(core.renderedText, core.text)
        /\ core.calls >= 1 =>
               /\ core.lastCall.chunk = core.chunks[core.calls]
               /\ core.lastCall.renderedText = JoinFirst(core.chunks, core.calls)
               /\ core.lastCall.renderedText
                      = core.prevCall.renderedText \o core.lastCall.chunk
               /\ core.prevCall.renderedText
                      = JoinFirst(core.chunks, core.calls - 1)
        /\ core.pc = "returned" =>
               /\ core.result.renderedText = JoinFirst(core.chunks, core.calls)
               /\ core.result.chunkCount = Len(core.chunks)

\* A run that returned the whole text after several onProgress calls, the
\* first with a chunk cut after a blank and the next with a longer chunk.
C16_Witness ==
    /\ core.pc = "returned"
    /\ ~core.result.interrupted
    /\ core.calls > 2
    /\ core.chunks[1] = <<Letter, Blank>>
    /\ Len(core.chunks[2]) > 2
    /\ core.lastCall.chunk = core.chunks[core.calls]
    /\ core.result.renderedText = core.text

NoChunkAfterAbort ==
    /\ core.calls = core.callsAtAbort
    /\ core.pc # "wait"

\* C17 as stated: once the signal is aborted no further chunk is passed to
\* onProgress, no wait is pending, and the run returns interrupted = true
\* with the text rendered so far.
C17_AbortStopsThePseudoStream ==
    (PseudoStreamRuns /\ aborted) =>
        /\ NoChunkAfterAbort
        /\ core.pc = "returned" =>
               /\ core.result.interrupted
               /\ core.result.renderedText = core.renderedText

\* C17 amended: the same for a text that has at least one chunk.
C17_AbortStopsANonEmptyPseudoStream ==
    (PseudoStreamRuns /\ aborted) =>
        /\ NoChunkAfterAbort
        /\ (core.pc = "returned" /\ core.chunks # <<>>) =>
               /\ core.result.interrupted
               /\ core.result.renderedText = core.renderedText

\* The signal was aborted during the wait after the first of several chunks.
C17_Witness ==
    /\ aborted
    /\ core.pc = "returned"
    /\ core.result.interrupted
    /\ core.calls = 1
    /\ core.delayMs > 0
    /\ Len(core.chunks) > 2

\* C18: buildPseudoStreamChunks returns non-empty chunks whose concatenation
\* in order is the text.
C18_ChunksJoinToTheText ==
    PseudoStreamRuns =>
        /\ \A i \in DOMAIN core.chunks : core.chunks[i] # <<>>
        /\ JoinFirst(core.chunks, Len(core.chunks)) = core.text

\* A text with a blank and punctuation, cut after the blank and then into
\* chunks of the resolved size.
C18_Witness ==
    /\ PseudoStreamRuns
    /\ Len(core.text) > MaxHeadLen
    /\ core.text[1] = Letter
    /\ core.text[2] = Blank
    /\ core.text[3] = ClauseMark
    /\ Len(core.chunks[1]) = 2
    /\ Len(core.chunks[2]) = 4

\* C19: the wait after a chunk is baseDelayMs + 35 when the chunk ends on
\* sentence punctuation, baseDelayMs + 20 when it ends on clause punctuation
\* or on a newline, and baseDelayMs otherwise.
C19_DelayByLastCharacter ==
    core.calls >= 1 =>
        LET chunk == core.lastCall.chunk
            lastChar == chunk[Len(chunk)]
        IN  core.delayMs =
                (IF lastChar = SentenceMark THEN core.baseDelayMs + 35
                 ELSE IF lastChar \in {ClauseMark, Newline}
                 THEN core.baseDelayMs + 20
                 ELSE core.baseDelayMs)

\* The marker occurs in the text at the zero-based position.
OccursAt(marker, text, position) ==
    /\ position + Len(marker) <= Len(text)
    /\ SubSeq(text, position + 1, position + Len(marker)) = marker

ActiveMarkerSet == {core.activeMarkers[i] : i \in DOMAIN core.activeMarkers}

\* Each cut of a push is made at the leftmost position where a configured
\* marker occurs, consumes the longest marker that occurs there, and leaves
\* the rest of the buffer for the next cut.
CutsAtLeftmostLongestMarker ==
    /\ \A n \in DOMAIN core.cuts :
           LET cut == core.cuts[n]
               after == SubSeq(cut.buffer, cut.index + cut.length + 1,
                               Len(cut.buffer))
           IN  /\ \E marker \in ActiveMarkerSet :
                      /\ Len(marker) = cut.length
                      /\ OccursAt(marker, cut.buffer, cut.index)
               /\ \A marker \in ActiveMarkerSet :
                      /\ \A position \in 0..(cut.index - 1) :
                             ~OccursAt(marker, cut.buffer, position)
                      /\ OccursAt(marker, cut.buffer, cut.index)
                             => Len(marker) <= cut.length
               /\ IF n < Len(core.cuts)
                  THEN core.cuts[n + 1].buffer = after
                  ELSE core.buffer = after
    /\ core.cuts # <<>> => core.cuts[1].buffer = core.joined
    /\ \A marker \in ActiveMarkerSet :
           \A position \in 0..Len(core.buffer) :
               ~OccursAt(marker, core.buffer, position)

NoMarkerInSegments ==
    \A n \in DOMAIN core.segments :
        \A marker \in ActiveMarkerSet :
            \A position \in 0..Len(core.segments[n]) :
                ~OccursAt(marker, core.segments[n], position)

\* C20 as stated: push() cuts at the leftmost occurrence of any configured
\* marker, the longer marker is consumed on a tie, the text before each cut
\* is the segment returned for it, and no marker occurs in a segment.
C20_SegmentIsTextBeforeCut ==
    (core.pc = "created" /\ core.op = "push") =>
        /\ CutsAtLeftmostLongestMarker
        /\ NoMarkerInSegments
        /\ core.segments =
               [n \in DOMAIN core.cuts |->
                   SubSeq(core.cuts[n].buffer, 1, core.cuts[n].index)]

\* C20 amended: the same, the segment being the trimmed text before the cut,
\* returned only when it is not empty.
C20_SegmentIsTrimmedTextBeforeCut ==
    (core.pc = "created" /\ core.op = "push") =>
        /\ CutsAtLeftmostLongestMarker
        /\ NoMarkerInSegments
        /\ \A n \in DOMAIN core.cuts :
               core.cuts[n].segment
                   = trim(SubSeq(core.cuts[n].buffer, 1, core.cuts[n].index))
        /\ core.segments =
               SelectSeq([n \in DOMAIN core.cuts |-> core.cuts[n].segment],
                         LAMBDA segment : segment # <<>>)

\* A push onto text kept from an earlier push, cut where a shorter and a
\* longer marker start at the same position: the longer one is consumed and
\* the trimmed text before it is returned.
C20_Witness ==
    /\ core.pc = "created"
    /\ core.op = "push"
    /\ core.activeMarkers = <<<<MarkerOpen>>, <<MarkerOpen, MarkerClose>>>>
    /\ core.joined = <<Blank, Letter, MarkerOpen, MarkerClose>>
    /\ core.textDelta = <<MarkerOpen, MarkerClose>>
    /\ core.segments = <<<<Letter>>>>
    /\ core.buffer = <<>>

IsWhitespace(char) == char \in {Blank, Newline}
AllWhitespace(text) == \A i \in DOMAIN text : IsWhitespace(text[i])

\* C21: every segment returned by push() is non-empty and neither starts nor
\* ends with white space, and a cut whose text before the marker is empty or
\* all white space adds no segment.
C21_SegmentsAreNonEmptyAndTrimmed ==
    (core.pc = "created" /\ core.op = "push") =>
        /\ \A n \in DOMAIN core.segments :
               LET segment == core.segments[n]
               IN  /\ segment # <<>>
                   /\ ~IsWhitespace(segment[1])
                   /\ ~IsWhitespace(segment[Len(segment)])
        /\ Len(core.segments) =
               Cardinality({n \in DOMAIN core.cuts :
                   ~AllWhitespace(SubSeq(core.cuts[n].buffer, 1,
                                         core.cuts[n].index))})

\* A push onto kept white space that made two cuts, the first after white
\* space only and the second after no text: no segment is returned.
C21_Witness ==
    /\ core.pc = "created"
    /\ core.op = "push"
    /\ core.activeMarkers = <<<<MarkerClose>>, <<MarkerOpen, MarkerClose>>>>
    /\ core.joined = <<Blank, MarkerClose, MarkerClose>>
    /\ core.textDelta = <<MarkerClose, MarkerClose>>
    /\ Len(core.cuts) = 2
    /\ core.segments = <<>>

\* text is `whole` without the white space at its two ends.
IsTrimOf(text, whole) ==
    /\ text # <<>> => ~IsWhitespace(text[1]) /\ ~IsWhitespace(text[Len(text)])
    /\ \E before \in 0..Len(whole) :
           /\ before + Len(text) <= Len(whole)
           /\ SubSeq(whole, before + 1, before + Len(text)) = text
           /\ AllWhitespace(SubSeq(whole, 1, before))
           /\ AllWhitespace(SubSeq(whole, before + Len(text) + 1, Len(whole)))

IsPartOf(text, whole) ==
    \E before \in 0..Len(whole) :
        /\ before + Len(text) <= Len(whole)
        /\ SubSeq(whole, before + 1, before + Len(text)) = text

\* C22: flush() returns the buffer trimmed and empties it, so that a flush()
\* right after it returns the empty string; discardRemainder() empties the
\* buffer, so that a flush() after it returns the empty string; and what a
\* later push() returns and keeps is made of the buffer left and its own text.
C22_FlushReturnsTrimmedRemainder ==
    [][core.pc = "created" =>
          /\ core'.op = "flush" =>
                 /\ IsTrimOf(core'.remaining, core.buffer)
                 /\ core'.buffer = <<>>
                 /\ core.op \in {"flush", "discardRemainder"} =>
                        core'.remaining = <<>>
          /\ core'.op = "discardRemainder" =>
                 /\ core'.buffer = <<>>
                 /\ core'.remaining = <<>>
          /\ core'.op = "push" =>
                 /\ core'.joined = core.buffer \o core'.textDelta
                 /\ IsPartOf(core'.buffer, core'.joined)
                 /\ \A n \in DOMAIN core'.segments :
                        IsPartOf(core'.segments[n], core'.joined)]_vars

\* flush() has returned a remainder that lost white space at both ends.
C22_Witness ==
    /\ core.pc = "created"
    /\ core.op = "flush"
    /\ core.remaining = <<Letter, Blank, Letter>>
    /\ core.buffer = <<>>

\* The characters of a text and those of them counted as CJK.
RECURSIVE CountOf(_, _)
CountOf(text, classes) ==
    IF text = <<>> THEN 0
    ELSE (IF text[1].class \in classes THEN text[1].count ELSE 0)
             + CountOf(Tail(text), classes)

\* The estimated cost of a message: its CJK characters divided by 1.5 plus
\* its other characters divided by 4, rounded up, plus 4.
MessageCost(content) ==
    LET cjk == CountOf(content, {"c", "w"})
        other == CountOf(content, {"x", "s"})
        estimate == CHOOSE n \in ((8 * cjk + 3 * other) \div 12)
                                     ..((8 * cjk + 3 * other) \div 12 + 1) :
                        /\ 12 * n >= 8 * cjk + 3 * other
                        /\ 12 * (n - 1) < 8 * cjk + 3 * other
    IN  estimate + 4

RECURSIVE CostOfFirst(_, _)
CostOfFirst(messages, k) ==
    IF k = 0 THEN 0
    ELSE CostOfFirst(messages, k - 1) + MessageCost(messages[k].content)

\* C23: the tokenCount returned by buildContextWindow is the sum of the costs
\* of the returned messages and is at most the returned inputBudgetTokens,
\* also when the newest message was truncated to fit.
C23_TokenCountIsCostWithinBudget ==
    core.pc = "returned" =>
        /\ core.result.tokenCount
               = CostOfFirst(core.result.messages, Len(core.result.messages))
        /\ core.result.tokenCount <= core.result.inputBudgetTokens

\* The newest message was truncated, to a text that lost white space at its
\* end, and is returned alone with a cost under the budget.
C23_Witness ==
    /\ core.pc = "returned"
    /\ core.truncated
    /\ Len(core.result.messages) = 1
    /\ core.result.messages[1].content = <<Run("c", 1500)>>
    /\ core.result.tokenCount = 1004
    /\ core.result.inputBudgetTokens = 1024

\* The rows of the history that normalization keeps: user and assistant
\* rows whose content is not white space only.
KeptRows ==
    LET keeps(i) ==
            /\ core.conversationHistory[i].role \in {"user", "assistant"}
            /\ \E n \in DOMAIN core.conversationHistory[i].content :
                   core.conversationHistory[i].content[n].class \in {"x", "c"}
    IN  SelectSeq([i \in DOMAIN core.conversationHistory |-> i], keeps)

\* text is the first characters of whole.
IsPrefixOfText(text, whole) ==
    /\ TextLength(text) <= TextLength(whole)
    /\ text = SliceTo(whole, TextLength(text))

\* C24: buildContextWindow returns at most N messages for a ceiling N, and
\* the messages returned are the newest rows of the normalized history in
\* their order, none skipped.
C24_NewestRowsUpToCeiling ==
    core.pc = "returned" =>
        LET messages == core.result.messages
            count == Len(messages)
            kept == KeptRows
        IN  /\ core.maxContextMessages > 0 => count <= core.maxContextMessages
            /\ count <= Len(kept)
            /\ \A i \in 1..count :
                   LET row == core.conversationHistory[
                                  kept[Len(kept) - count + i]]
                   IN  /\ messages[i].turnId = row.turnId
                       /\ messages[i].role = row.role
                       /\ IF core.truncated
                          THEN IsPrefixOfText(messages[i].content,
                                              TrimText(row.content))
                          ELSE messages[i].content = TrimText(row.content)

\* Of a history of three rows kept by normalization, the ceiling 2 left the
\* second and the third.
C24_Witness ==
    /\ core.pc = "returned"
    /\ core.maxContextMessages = 2
    /\ Len(core.conversationHistory) = 3
    /\ KeptRows = <<1, 2, 3>>
    /\ Len(core.result.messages) = 2
    /\ core.result.messages[1].turnId = 2
    /\ core.result.messages[2].turnId = 3
    /\ core.result.messages[1].role = "assistant"
    /\ core.result.isTrimmed

\* C25: when the newest message alone costs more than inputBudgetTokens,
\* buildContextWindow returns that one message with, as content, a non-empty
\* strictly shorter prefix of the original whose cost is within the budget,
\* and isTrimmed = true.
C25_OversizedNewestIsTruncated ==
    (/\ core.pc = "returned"
     /\ KeptRows # <<>>
     /\ MessageCost(TrimText(
            core.conversationHistory[KeptRows[Len(KeptRows)]].content))
            > core.result.inputBudgetTokens) =>
        LET newest == core.conversationHistory[KeptRows[Len(KeptRows)]]
            original == TrimText(newest.content)
            messages == core.result.messages
        IN  /\ Len(messages) = 1
            /\ messages[1].turnId = newest.turnId
            /\ messages[1].role = newest.role
            /\ messages[1].content # <<>>
            /\ TextLength(messages[1].content) < TextLength(original)
            /\ IsPrefixOfText(messages[1].content, original)
            /\ MessageCost(messages[1].content) <= core.result.inputBudgetTokens
            /\ core.result.isTrimmed

\* The newest of three rows, 4100 letters, is cut to the 4080 letters that
\* cost 1024 tokens, and the older rows are left out.
C25_Witness ==
    /\ core.pc = "returned"
    /\ Len(core.conversationHistory) = 3
    /\ KeptRows = <<1, 2, 3>>
    /\ core.conversationHistory[3].content = <<Run("x", 4100)>>
    /\ core.result.inputBudgetTokens = 1024
    /\ Len(core.result.messages) = 1
    /\ core.result.messages[1].content = <<Run("x", 4080)>>
    /\ core.result.tokenCount = 1024

\* The string is the word, as written.
IsWritten(written, word) ==
    written = [word |-> word, padded |-> FALSE, upper |-> FALSE]

\* A raw part that is a base64 image with no mimeType.
IsBase64WithoutMimeType(part) ==
    /\ part.nested
    /\ part.image.sourceType.word = "base64"
    /\ ~part.image.mimeType.string

\* C28: normalizeLocalMessage returns null or a message whose role is user or
\* assistant and whose parts are not empty, each text part with text that is
\* not white space only, each image part with a supported sourceType, a
\* non-empty value, a mimeType when the sourceType is base64, the mimeType
\* of the URL when it is data_url, and a detail of low, high, auto or none;
\* a base64 image without mimeType gives no part.
C28_NormalizedMessageIsWellFormed ==
    core.pc = "returned" =>
        \/ core.result = NoMessage
        \/ /\ core.result.role \in {"user", "assistant"}
           /\ core.result.parts # <<>>
           /\ \A n \in DOMAIN core.result.parts :
                  LET part == core.result.parts[n]
                      image == part.image
                  IN  \/ /\ part.type = "text"
                         /\ \E i \in DOMAIN part.text :
                                part.text[i].class \in {"x", "c"}
                      \/ /\ part.type = "image"
                         /\ \E word \in {"url", "data_url", "base64",
                                         "file_uri", "file_id"} :
                                IsWritten(image.sourceType, word)
                         /\ image.value.word # ""
                         /\ ~image.value.padded
                         /\ IsWritten(image.sourceType, "base64")
                                => image.mimeType \notin {Absent, ""}
                         /\ IsWritten(image.sourceType, "data_url")
                                => \/ /\ image.value.word
                                            = "data:image/png;base64,AAAA"
                                      /\ image.mimeType = "image/png"
                                   \/ /\ image.value.word = "data: ;base64,AAAA"
                                      /\ image.mimeType = ""
                         /\ image.detail \in {"low", "high", "auto", Absent}
           /\ core.rawMessage.hasParts =>
                  Len(core.result.parts) <=
                      Cardinality({i \in DOMAIN core.rawMessage.parts :
                          ~IsBase64WithoutMimeType(core.rawMessage.parts[i])})
                      + (IF \A i \in DOMAIN core.rawMessage.parts :
                                IsBase64WithoutMimeType(core.rawMessage.parts[i])
                         THEN 1 ELSE 0)

\* A message written with the role " ASSISTANT " whose parts were a base64
\* image without mimeType and a padded data URL: the first is dropped, the
\* second kept with the mimeType of the URL.
C28_Witness ==
    /\ core.pc = "returned"
    /\ core.rawMessage.role = PaddedUpper("assistant")
    /\ Len(core.rawMessage.parts) = 2
    /\ IsBase64WithoutMimeType(core.rawMessage.parts[1])
    /\ core.rawMessage.parts[2].image.value = PaddedDataUrl
    /\ core.result.role = "assistant"
    /\ Len(core.result.parts) = 1
    /\ core.result.parts[1].image.mimeType = "image/png"
    /\ IsWritten(core.result.parts[1].image.value,
                 "data:image/png;base64,AAAA")

ImagePartsOf(message) ==
    SelectSeq(message.parts, LAMBDA part : part.type = "image")
TextPartsOf(message) ==
    SelectSeq(message.parts, LAMBDA part : part.type = "text")

\* The texts of the text parts of a message, joined by two newlines.
RECURSIVE JoinedTextOf(_)
JoinedTextOf(parts) ==
    IF parts = <<>> THEN <<>>
    ELSE IF Len(parts) = 1 THEN parts[1].text
    ELSE ConcatText(ConcatText(parts[1].text, <<Run("s", 2)>>),
                    JoinedTextOf(Tail(parts)))

\* The cost of the placeholder that stands for the images of a message.
ImagePlaceholderCost == MessageCost(<<Run("x", 7)>>)

\* C26: when the newest message has image parts and alone costs more than
\* the budget, buildLocalMessageEnvelope returns that one message with every
\* image part it had, in their order, and one text part whose text is a
\* shorter prefix of its text that costs at most the budget less the cost of
\* the image placeholder.
C26_ImagesKeptTextTruncated ==
    (/\ core.pc = "returned"
     /\ core.normalizedHistory # <<>>
     /\ ImagePartsOf(core.normalizedHistory[Len(core.normalizedHistory)])
            # <<>>
     /\ MessageCost(JoinedTextOf(TextPartsOf(
            core.normalizedHistory[Len(core.normalizedHistory)])))
            > core.result.inputBudgetTokens) =>
        LET newest == core.normalizedHistory[Len(core.normalizedHistory)]
            plainText == JoinedTextOf(TextPartsOf(newest))
            messages == core.result.messages
        IN  /\ Len(messages) = 1
            /\ messages[1].role = newest.role
            /\ messages[1].turnId = newest.turnId
            /\ ImagePartsOf(messages[1]) = ImagePartsOf(newest)
            /\ Len(TextPartsOf(messages[1])) = 1
            /\ Len(messages[1].parts) = Len(ImagePartsOf(newest)) + 1
            /\ LET text == TextPartsOf(messages[1])[1].text
               IN  /\ text # <<>>
                   /\ TextLength(text) < TextLength(plainText)
                   /\ IsPrefixOfText(text, plainText)
                   /\ MessageCost(text)
                          <= core.result.inputBudgetTokens
                                 - ImagePlaceholderCost
            /\ core.result.isTrimmed

\* The newest row had an image, 4100 letters and another image: with a
\* budget of 1024 it is returned with both images and 4056 letters.
C26_Witness ==
    /\ core.pc = "returned"
    /\ core.truncated
    /\ Len(core.conversationHistory) = 2
    /\ core.result.inputBudgetTokens = 1024
    /\ Len(core.result.messages) = 1
    /\ Len(core.result.messages[1].parts) = 3
    /\ core.result.messages[1].parts[1].image.value.word = "cat.png"
    /\ core.result.messages[1].parts[2].image.mimeType = "image/png"
    /\ core.result.messages[1].parts[3].text = <<Run("x", 4056)>>

\* The row of the history a returned message was made from.
RowOf(message) ==
    core.conversationHistory[
        CHOOSE i \in DOMAIN core.conversationHistory :
            TurnIds[i] = message.turnId]

LegacyTextPart(row) ==
    [type |-> "text", text |-> TrimText(row.content), image |-> NoImage]

\* C29: a message returned by buildLocalMessageEnvelope whose row has valid
\* structured parts and a legacy text is made of the normalized parts only:
\* the legacy text is not among its parts.
C29_PartsTakePrecedenceOverLegacyText ==
    core.pc = "returned" =>
        \A n \in DOMAIN core.result.messages :
            LET message == core.result.messages[n]
                row == RowOf(message)
                validParts ==
                    SelectSeq([i \in DOMAIN row.parts |->
                                  normalizeLocalPart(row.parts[i])],
                              LAMBDA part : part # NoPart)
            IN  (row.hasParts /\ validParts # <<>>) =>
                    /\ \A i \in DOMAIN message.parts :
                           message.parts[i] # LegacyTextPart(row)
                    /\ ~core.truncated => message.parts = validParts

\* A row with the legacy content and with a text part and an image part is
\* returned as these two parts.
C29_Witness ==
    /\ core.pc = "returned"
    /\ Len(core.result.messages) = 2
    /\ RowOf(core.result.messages[2]).content = LegacyContent
    /\ Len(RowOf(core.result.messages[2]).parts) = 2
    /\ Len(core.result.messages[2].parts) = 2
    /\ core.result.messages[2].parts[1].text = <<Run("s", 1), Run("x", 3)>>
    /\ core.result.messages[2].parts[2].type = "image"

\* The system instruction of the request: the trimmed system prompt, and the
\* formatting rules when the marker split is on.
SystemInstructionOf(settings) ==
    LET prompt == IF settings.systemPrompt.string
                  THEN SelectSeq(settings.systemPrompt.pieces,
                                 LAMBDA piece : piece # " ")
                  ELSE <<>>
        rules == IF settings.enablePseudoStream
                 THEN <<"Formatting rules: ...">> ELSE <<>>
    IN  IF prompt = <<>> THEN rules
        ELSE IF rules = <<>> THEN prompt
        ELSE prompt \o <<"\n\n">> \o rules

\* The pieces occur in the content, one after the other.
OccursIn(pieces, content) ==
    \E start \in 0..(Len(content) - Len(pieces)) :
        SubSeq(content, start + 1, start + Len(pieces)) = pieces

\* C27: the body of an Anthropic request carries the system instruction in
\* its top-level system field, and the content of no message of the body
\* contains the system instruction.
C27_SystemInstructionIsTopLevelOnly ==
    (core.pc = "built" /\ SystemInstructionOf(core.config) # <<>>) =>
        /\ core.requestBody.system = SystemInstructionOf(core.config)
        /\ \A n \in DOMAIN core.requestBody.messages :
               ~OccursIn(SystemInstructionOf(core.config),
                         core.requestBody.messages[n].content)

\* What the operations of C30 act on: the sessions, their messages and
\* titles, and the generations in flight.
ChatOf(chat) ==
    [sessions |-> chat.sessions, activeSessionId |-> chat.activeSessionId,
     titles |-> chat.titles, messages |-> chat.messages,
     inFlight |-> chat.inFlight]

RefusedOperations ==
    {"sendMessage", "retry", "createSession", "switchSession",
     "renameSession", "deleteSession", "clearSession", "clearAllSessions"}

DocumentedThinking(providerId) ==
    IF providerId = "openai"
    THEN {"", "none", "minimal", "low", "medium", "high", "xhigh"}
    ELSE {"", "2048", "4096"}
DocumentedSearchModes(providerId) ==
    IF providerId = "openai"
    THEN {"", "openai_web_search_low", "openai_web_search_medium",
          "openai_web_search_high"}
    ELSE IF providerId = "anthropic" THEN {"", "anthropic_web_search"}
    ELSE {"", "gemini_google_search"}
IsDocumentedFor(providerId, form) ==
    /\ form # NoForm
    /\ form.cfgUrl # ""
    /\ form.cfgThinkingBudget \in DocumentedThinking(providerId)
    /\ form.cfgSearchMode \in DocumentedSearchModes(providerId)

\* C31: switching the form back to a provider restores the API URL, the
\* keys, the model, the thinking value and the search mode the provider had
\* when the form left it, for every value documented for the provider, and
\* editing the fields changes no stored profile.
C31_SwitchRestoresProfile ==
    /\ (core.pc = "config" /\ core.op = "switch"
          /\ IsDocumentedFor(core.activeProvider,
                             core.leftForm[core.activeProvider]))
         => core.form = core.leftForm[core.activeProvider]
    /\ (core.pc = "config" /\ core.op = "edit")
         => core.profiles = core.profilesBefore

\* The segments of a text pushed in one call and then flushed.
OnePassSegments(text, activeMarkers) ==
    LET split == SplitBuffer(text, activeMarkers)
        remaining == trim(split.buffer)
    IN  split.segments \o (IF remaining # <<>> THEN <<remaining>> ELSE <<>>)

\* C32: a text pushed to the splitter in any sequence of deltas and then
\* flushed gives the segments of the same text pushed in one call and then
\* flushed.
C32_StreamedSplitEqualsOnePass ==
    core.pc = "flushed" =>
        core.emitted = OnePassSegments(core.pushed, core.activeMarkers)

\* No marker occurs in another marker before its end: streamed and one-pass
\* splitting agree for such marker lists.
OccursBeforeEnd(inner, outer) ==
    \E start \in 0..(Len(outer) - Len(inner) - 1) :
        SubSeq(outer, start + 1, start + Len(inner)) = inner
NoMarkerInsideAnother ==
    \A i, j \in DOMAIN core.activeMarkers :
        i # j => ~OccursBeforeEnd(core.activeMarkers[i], core.activeMarkers[j])
C32_AgreesWhenNoMarkerInsideAnother ==
    (core.pc = "flushed" /\ NoMarkerInsideAnother) =>
        core.emitted = OnePassSegments(core.pushed, core.activeMarkers)

\* C33: over a Gemini stream whose payloads are incremental chunks, the
\* emitted text-deltas concatenated are the payload texts concatenated.
C33_ChunksAreNeverLost ==
    core.pc = "resolved" => core.emittedText = core.payloadText

GenerationOf == IF "finishStreamingCalls" \in DOMAIN core THEN core ELSE [pc |-> "none"]

C35_FallbackNeverMixes ==
    GenerationOf.pc # "none" =>
        /\ core.inFallback =>
               /\ core.fallback = "first"
               /\ core.shouldUseStreaming
               /\ core.buffer = 0
               /\ core.persistedSegmentCount = 0
        /\ \A i, j \in 1..Len(core.messages) :
               /\ core.messages[i].origin = core.messages[j].origin
               /\ i # j => core.messages[i] # core.messages[j]

C35_Witness ==
    /\ GenerationOf.pc = "ended"
    /\ core.inFallback
    /\ core.firstData
    /\ Len(core.messages) = 2
    /\ core.messages[1].origin = "fallback"

\* C40: the connect-timeout timer is not pending once the first response data
\* has arrived, never fires after it or after the run has ended, and a
\* connection timeout is reported only for an abort before the first data.
C40_TimeoutOnlyBeforeFirstData ==
    GenerationOf.pc # "none" =>
        /\ core.firstData => core.timer = "cancelled"
        /\ ~core.firedAfterFirstData
        /\ ~core.firedAfterEnd
        /\ GenerationOf.pc = "ended" => core.timer # "pending"
        /\ core.report = "Connection timeout" =>
               /\ ~core.firstData
               /\ core.timer = "fired"

C40_Witness ==
    /\ GenerationOf.pc = "ended"
    /\ core.firstData
    /\ core.abortedAfterFirstData
    /\ core.report = "Generation stopped, partial discarded"

\* The text-deltas of the received lines had a blank line followed them.
DeltasWithFinalBlankLine ==
    TextDeltas(ReadAtOnce(run.received \o <<SepLine>>).events)

\* C36: when the byte stream closes, a final data record that no blank line
\* follows is parsed like a terminated one: the text-deltas of a closed stream
\* are those of the same stream with a blank line added at its end.
C36_FinalRecordWithoutBlankLineIsParsed ==
    (run.keepsReceived /\ StreamClosed) =>
        TextDeltas(run.events) = DeltasWithFinalBlankLine

\* The same for the readers that parse what is left in the buffer.
C36_HoldsInGeminiReaders ==
    (run.keepsReceived /\ StreamClosed /\ ParsesResidual(provider)) =>
        TextDeltas(run.events) = DeltasWithFinalBlankLine

\* C37: buildContextWindow returns isTrimmed = true exactly when its messages
\* are not the whole normalized history (a user or assistant message was left
\* out or truncated); rows dropped by the normalization do not set it, and
\* the empty history gives the empty window, untrimmed, with tokenCount 0.
C37_TrimmedIffMessageLeftOutOrTruncated ==
    (core.pc = "returned" /\ "candidateHistory" \in DOMAIN core) =>
        /\ core.result.isTrimmed
               <=> core.result.messages
                       # normalizeHistoryForContext(core.conversationHistory)
        /\ core.conversationHistory = <<>> =>
               /\ core.result.messages = <<>>
               /\ ~core.result.isTrimmed
               /\ core.result.tokenCount = 0

\* A history with rows the normalization drops, returned whole and untrimmed.
C37_Witness ==
    /\ core.pc = "returned"
    /\ "candidateHistory" \in DOMAIN core
    /\ ~core.result.isTrimmed
    /\ Len(core.result.messages) = 2
    /\ Len(core.conversationHistory) = 3

\* The lengths of the prefixes of content whose estimate plus 4 is within
\* maxTokens, found by trying every length.
FittingLengths(content, maxTokens) ==
    {n \in 0..TextLength(content) :
        estimateTokenCount(SliceTo(content, n)) + 4 <= maxTokens}

\* The longest such prefix, the empty text when there is none.
LongestFittingPrefix(content, maxTokens) ==
    LET fitting == FittingLengths(content, maxTokens)
    IN  IF fitting = {} THEN <<>>
        ELSE SliceTo(content, CHOOSE n \in fitting : \A m \in fitting : m <= n)

\* C38: truncateContentToTokenBudget returns the trimmed longest prefix of
\* the content whose estimate plus 4 fits the budget, as a scan of every
\* prefix length finds it; the estimate never decreases as the prefix grows.
C38_BinarySearchFindsLongestFittingPrefix ==
    ("truncated" \in DOMAIN core /\ "content" \in DOMAIN core
        /\ core.pc = "returned") =>
        /\ core.truncated
               = TrimText(LongestFittingPrefix(core.content, core.maxTokens))
        /\ \A n \in 1..TextLength(core.content) :
               estimateTokenCount(SliceTo(core.content, n - 1))
                   <= estimateTokenCount(SliceTo(core.content, n))

\* A mixed text cut inside, with white space trimmed at the cut.
C38_Witness ==
    /\ "content" \in DOMAIN core
    /\ core.pc = "returned"
    /\ core.content = <<Run("c", 1), Run("s", 2), Run("x", 2)>>
    /\ core.maxTokens = 5
    /\ core.truncated = <<Run("c", 1)>>

\* max(1024, floor(0.2 * T)) and max(1024, T - reserve)
ReserveOf(T) == Max(1024, (T * 2) \div 10)
InputBudgetOf(T) == Max(1024, T - ReserveOf(T))

\* C39: for every positive maxContextTokens T and every history, the
\* returned inputBudgetTokens is max(1024, T - max(1024, floor(0.2 T))), and
\* inputBudgetTokens plus the reserve is at most T.
C39_InputBudgetLeavesTheReserve ==
    (core.pc = "returned" /\ core.maxContextTokens > 0) =>
        /\ core.result.inputBudgetTokens = InputBudgetOf(core.maxContextTokens)
        /\ core.result.inputBudgetTokens + ReserveOf(core.maxContextTokens)
               <= core.maxContextTokens

\* What holds: the formula when a message is left after normalization, and
\* the sum within T when, moreover, T is at least 2048.
C39_HoldsForNonEmptyWindowAndLargeBudget ==
    (core.pc = "returned" /\ core.maxContextTokens > 0
        /\ core.candidateHistory # <<>>) =>
        /\ core.result.inputBudgetTokens = InputBudgetOf(core.maxContextTokens)
        /\ core.maxContextTokens >= 2048 =>
               core.result.inputBudgetTokens + ReserveOf(core.maxContextTokens)
                   <= core.maxContextTokens

====
